---- MODULE Spec2Model ----
(***************************************************************************)
(* A state-machine model of the arbiter paper-trading core: the paper      *)
(* account ledger, the auto-execute and auto-close jobs, the manual        *)
(* execute / close / paper-settings routes, the three detectors'           *)
(* idempotency window and the cron tick orchestrator.                      *)
(*                                                                         *)
(* Money is counted in mills (1/1000 USD) so that Number(x.toFixed(2)) is  *)
(* a real rounding step.  Every database call of a handler is one step of  *)
(* that handler; a handler's local variables live in loc[p].               *)
(***************************************************************************)
EXTENDS Integers, Sequences, FiniteSets, TLC

\* ---------------------------------------------------------------- bounds
MaxOpps == 2
MaxFaults == 1
MaxRaceRuns == 2
MaxRuns == 3
MaxGateRuns == 2
MaxTickRequests == 2
MaxSnapshots == 2
MaxNow == 7
MaxLlmOpps == 5
MaxLlmRuns == 2
MaxCloseRuns == 2
MaxTriRuns == 1
MaxTriFaults == 1
MaxMappings == 2
MaxSymbolRuns == 2
MaxSymbolFaults == 1
MaxPnlRuns == 2
MaxPnlFaults == 1
MaxCarryRaceRuns == 2
MaxAwaitOpps == 2
MaxAwaitRuns == 1
MaxPipelineRuns == 3

\* ------------------------------------------------------ program constants
DEFAULT_NOTIONAL == 100
DEFAULT_MIN_NOTIONAL == 100
DEFAULT_MAX_NOTIONAL == 500
DEFAULT_PAPER_BALANCE == 10000
MAX_OPEN_POSITIONS == 10
MAX_OPEN_PER_SYMBOL == 2
MAX_NEW_PER_HOUR == 3
MAX_CANDIDATES == 10
MAX_EXECUTE_PER_TICK == 1
MAX_LLM_CALLS_PER_TICK == 3
MAX_LLM_RERANK == 3
MAX_LLM_CALLS_PER_DAY == 500
MIN_SAMPLES == 20
LOOKBACK_MINUTES == 15
IDEMPOTENT_MINUTES == 5
ENTRY_COSTS_BPS == 8
EXIT_COSTS_BPS == 8
TOTAL_COSTS_BPS == ENTRY_COSTS_BPS + EXIT_COSTS_BPS
CARRY_MIN_NET_EDGE_BPS == 2

\* ---------------------------------------------------------------- helpers
\* An amount of whole dollars, in mills.
Mills(usd) == usd * 1000

Min2(a, b) == IF a <= b THEN a ELSE b
Max2(a, b) == IF a >= b THEN a ELSE b

\* Number(x.toFixed(2)) on an amount in mills: round to the nearest cent,
\* halves away from zero.
ToFixed2(x) ==
  IF x >= 0 THEN ((x + 5) \div 10) * 10 ELSE 0 - (((0 - x) + 5) \div 10) * 10

clampNotional(value, min, max) == Min2(Max2(value, min), max)

NoBreakEven == 0 - 1

\* deriveNotional: the tiered size in mills, clamped to the account's bounds.
deriveNotional(opp, minNotional, maxNotional) ==
  LET be == opp.break_even_hours
      ne == opp.net_edge_bps
      byBreakEven ==
        IF be # NoBreakEven /\ be <= 24 THEN Mills(500)
        ELSE IF be # NoBreakEven /\ be <= 48 THEN Mills(300)
        ELSE 0
      byEdge ==
        IF ne >= 20 THEN Mills(500)
        ELSE IF ne >= 12 THEN Mills(300)
        ELSE Mills(DEFAULT_NOTIONAL)
      notional == IF byBreakEven # 0 THEN byBreakEven ELSE byEdge
  IN clampNotional(notional, minNotional, maxNotional)

STRATEGY_RISK_WEIGHT(type) ==
  CASE type = "spot_perp_carry" -> 0
    [] type = "xarb_spot" -> 1
    [] type = "tri_arb" -> 2
    [] OTHER -> 3

\* scoreOpportunity with the edge bonus added instead of subtracted.
scoreOpportunityEdgeAdded(opp) ==
  LET breakEvenPenalty ==
        IF opp.break_even_hours # NoBreakEven
        THEN 50 * opp.break_even_hours ELSE 4 * 1200
  IN 1200 * STRATEGY_RISK_WEIGHT(opp.type) + breakEvenPenalty
       + 120 * opp.net_edge_bps - 12 * opp.confidence

\* scoreOpportunity, scaled by 1200 so that /24, /10 and a confidence given
\* in hundredths stay integers: risk + breakEven/24 - netEdge/10 - confidence.
scoreOpportunity(opp) ==
  LET breakEvenPenalty ==
        IF opp.break_even_hours # NoBreakEven
        THEN 50 * opp.break_even_hours ELSE 4 * 1200
  IN 1200 * STRATEGY_RISK_WEIGHT(opp.type) + breakEvenPenalty
       - 120 * opp.net_edge_bps - 12 * opp.confidence

\* ------------------------------------------------------------------ state
VARIABLES
  account,        \* the paper_accounts row, or NoAccount
  opportunities,  \* the opportunities table; a row's id is its index
  positions,      \* the positions table; a row's id is its index
  executions,     \* the executions table (one row per inserted leg pair)
  decisions,      \* the opportunity_decisions table
  aiUsage,        \* ai_usage_daily.requests of the current day
  pc,             \* where each handler invocation stands
  loc,            \* each handler invocation's local variables
  faults,         \* repository failures the environment may still inject
  runs,           \* handler invocations that may still start
  now,            \* wall clock, minutes
  snapshots,      \* the market_snapshots table
  tick,           \* the cron tick orchestrator's run
  serial,         \* TRUE while handlers are invoked one at a time
  dailyPnl        \* the daily_strategy_pnl table

vars == <<account, opportunities, positions, executions, decisions, aiUsage,
          pc, loc, faults, runs, now, snapshots, tick, serial, dailyPnl>>

\* variantForOpportunity: hash = (id * 2654435761) >>> 0, variant by hash % 2.
\* 2654435761 = 40503 * 2^16 + 31153, so the low 16 bits of the hash are
\* those of id * 31153 (ids stay far below 2^15 here).
HashLow16(id) == (id * 31153) % 65536
\* A variant that also reads the positions table.
variantForBook(id) ==
  IF (HashLow16(id) + Len(positions)) % 2 = 0 THEN "A" ELSE "B"
variantForOpportunity(id) == IF HashLow16(id) % 2 = 0 THEN "A" ELSE "B"

dbVars == <<account, opportunities, positions, executions, decisions, aiUsage>>

NoAccount == [exists |-> FALSE, balance_usd |-> 0, reserved_usd |-> 0,
              min_notional_usd |-> 0, max_notional_usd |-> 0]

Ticks == {"tick1", "tick2"}
Procs == Ticks \cup {"manual", "close", "mclose", "settings", "detect", "tri", "cdetect",
                  "mdetect", "xdetect", "pnl", "fill",
                  "score"}

Symbols == {"BTCUSDT", "BTCUSD", "USDT->BTC->ETH->USDT"}

\* What the detectors can insert (the fields the execution side reads).
OppKinds ==
  { [type |-> "spot_perp_carry", exchange |-> "bybit", symbol |-> "BTCUSDT",
     net_edge_bps |-> 36, break_even_hours |-> 10, confidence |-> 70],
    [type |-> "xarb_spot", exchange |-> "bybit_okx", symbol |-> "BTCUSD",
     net_edge_bps |-> 12, break_even_hours |-> NoBreakEven, confidence |-> 60],
    [type |-> "tri_arb", exchange |-> "okx", symbol |-> "USDT->BTC->ETH->USDT",
     net_edge_bps |-> 3, break_even_hours |-> NoBreakEven, confidence |-> 56] }

\* An opportunities row: the detector's payload, the ts it wrote, and the
\* time of the insert.
OppRow(k, ts) ==
  [type |-> k.type, exchange |-> k.exchange, symbol |-> k.symbol,
   net_edge_bps |-> k.net_edge_bps, break_even_hours |-> k.break_even_hours,
   confidence |-> k.confidence, ts |-> ts, inserted_at |-> now]

NoResult == [status |-> "none", attempted |-> 0, created |-> 0, skipped |-> 0,
             reason |-> "", reasons |-> <<>>]

\* A field the venue's answer lacks.
Missing == 0 - 1

\* What the venues answer in one cycle: whether the requests succeed, the
\* two books (spot and perp of a carry position, buy and sell venue of a
\* cross-exchange one) and the funding in bps per day.
Answer(ok, a_bid, a_ask, b_bid, b_ask, funding) ==
  [ok |-> ok, a_bid |-> a_bid, a_ask |-> a_ask, b_bid |-> b_bid,
   b_ask |-> b_ask, funding |-> funding]
NoAnswer == Answer(FALSE, Missing, Missing, Missing, Missing, Missing)

LocInit ==
  [balance |-> 0, reserved |-> 0, available |-> 0, minN |-> 0, maxN |-> 0,
   openBySymbol |-> [s \in Symbols |-> 0], scored |-> <<>>, idx |-> 0,
   usage |-> 0, llmUsed |-> 0, notional |-> 0, pos |-> 0, dec |-> 0,
   todo |-> <<>>, arg |-> 0, unrealized |-> 0, reasons |-> <<>>,
   answer |-> NoAnswer, tickers |-> <<>>, evaluated |-> <<>>, since |-> 0,
   gross |-> 0, rows |-> <<>>, key |-> "",
   sent |-> 0, aborted |-> FALSE,
   attempted |-> 0, created |-> 0, skipped |-> 0, result |-> NoResult]

\* ------------------------------------------------------------ table reads
PosIds == 1..Len(positions)
OpenIds == {i \in PosIds : positions[i].status = "open"}
\* entry_ts >= now - 1h: age 0 is under five minutes, 1 under an hour, 2 older.
RecentIds == {i \in PosIds : positions[i].age < 2}
OpenForOpp(o) == {i \in OpenIds : positions[i].opportunity_id = o}
\* The executions rows of a position, one row set per insert: the entry
\* legs (the manual handler always writes a spot buy and a perp sell), and
\* the exit legs autoClosePaper writes, leg by leg the other side.
EntryLegs(type, auto) ==
  IF ~auto \/ type = "spot_perp_carry" THEN <<"spot_buy", "perp_sell">>
  ELSE IF type = "xarb_spot" THEN <<"spot_buy", "spot_sell">>
  ELSE <<"tri_leg_1", "tri_leg_2", "tri_leg_3">>
ExitLegs(type) ==
  IF type = "spot_perp_carry" THEN <<"spot_sell", "perp_buy">>
  ELSE <<"spot_sell", "spot_buy">>
EntryExecutions(i) ==
  [position_id |-> i, kind |-> "entry",
   legs |-> EntryLegs(positions[i].type, positions[i].auto)]
ExitExecutions(i) ==
  [position_id |-> i, kind |-> "exit", legs |-> ExitLegs(positions[i].type)]

SumNotional(S) ==
  LET RECURSIVE sum(_)
      sum(T) == IF T = {} THEN 0
                ELSE LET i == CHOOSE j \in T : TRUE
                     IN positions[i].notional_usd + sum(T \ {i})
  IN sum(S)

\* A handler invocation starts while the run budget lasts and, when handlers
\* are invoked one at a time, only after the previous one has returned.
AllIdle == \A q \in Procs : pc[q] = "idle"
CanStart == runs > 0 /\ (serial => AllIdle)

\* A handler returns (or throws): its locals are dropped, its result kept.
Finish(p, result) ==
  /\ pc' = [pc EXCEPT ![p] = "idle"]
  /\ loc' = [loc EXCEPT ![p] = [LocInit EXCEPT !.result = result]]

Goto(p, label, locals) ==
  /\ pc' = [pc EXCEPT ![p] = label]
  /\ loc' = [loc EXCEPT ![p] = locals]

\* A handler starts: the responses of the handlers that have returned are
\* gone by now.
Start(p, label, locals) ==
  /\ pc' = [pc EXCEPT ![p] = label]
  /\ loc' = [q \in Procs |-> IF q = p THEN locals
                             ELSE IF pc[q] = "idle" THEN LocInit ELSE loc[q]]

\* A repository write either succeeds or, while the environment has failures
\* left to inject, returns an error.
WriteOutcomes == IF faults > 0 THEN {"ok", "error"} ELSE {"ok"}
Charge(outcome) == faults' = IF outcome = "error" THEN faults - 1 ELSE faults

\* The responses of the handlers that have returned have been delivered.
Delivered ==
  loc' = [q \in Procs |-> IF pc[q] = "idle" THEN LocInit ELSE loc[q]]

\* A handler answers on its first step.
Reply(p, result) == Start(p, "idle", [LocInit EXCEPT !.result = result])

\* ------------------------------------------------- scoring (autoExecutePaper)
NoAi == <<>>
NoWeights == <<>>

\* buildFeatureBundle's vector: bias, net_edge_bps, confidence,
\* break_even_hours, funding_daily_bps, basis_bps, is_carry, is_xarb, is_tri
\* (the detectors' details carry no funding_daily_bps / basis_bps keys here).
buildFeatureBundle(opp) ==
  << 1, opp.net_edge_bps, opp.confidence,
     IF opp.break_even_hours = NoBreakEven THEN 0 ELSE opp.break_even_hours,
     0, 0,
     IF opp.type = "spot_perp_carry" THEN 1 ELSE 0,
     IF opp.type = "xarb_spot" THEN 1 ELSE 0,
     IF opp.type = "tri_arb" THEN 1 ELSE 0 >>

\* The decisions the trainer reads: those with a position_id.
TrainingRows == {d \in 1..Len(decisions) : decisions[d].position_id # 0}

\* trainWeights: no model under MIN_SAMPLES rows; the fitted vector is
\* represented by one fixed weight vector.
trainWeights(rows) ==
  IF Cardinality(rows) < MIN_SAMPLES THEN NoWeights
  ELSE << 0, -120, -12, 50, 0, 0, 0, 1200, 2400 >>

predictScore(weights, vector) ==
  IF weights = NoWeights THEN NoAi
  ELSE LET RECURSIVE dot(_)
           dot(i) == IF i = 0 THEN 0 ELSE weights[i] * vector[i] + dot(i - 1)
       IN << dot(Len(weights)) >>

\* One scored candidate: variant B takes the learned score when there is
\* one, everything else the rule score.
ScoredRowLearnedForAll(id, weights) ==
  LET opp == opportunities[id]
      score == scoreOpportunity(opp)
      aiScore == predictScore(weights, buildFeatureBundle(opp))
  IN [id |-> id, variant |-> variantForOpportunity(id), score |-> score,
      aiScore |-> aiScore,
      effectiveScore |-> IF aiScore # NoAi THEN aiScore[1] ELSE score]
ScoredRow(id, weights) ==
  LET opp == opportunities[id]
      variant == variantForOpportunity(id)
      score == scoreOpportunity(opp)
      aiScore == predictScore(weights, buildFeatureBundle(opp))
  IN [id |-> id, variant |-> variant, score |-> score, aiScore |-> aiScore,
      effectiveScore |->
        IF variant = "B" /\ aiScore # NoAi THEN aiScore[1] ELSE score]

\* Array.prototype.sort by effectiveScore ascending (stable).
RECURSIVE InsertByScore(_, _)
InsertByScore(x, s) ==
  IF s = <<>> THEN <<x>>
  ELSE IF Head(s).effectiveScore <= x.effectiveScore
       THEN <<Head(s)>> \o InsertByScore(x, Tail(s))
       ELSE <<x>> \o s

RECURSIVE SortByScore(_)
SortByScore(s) ==
  IF s = <<>> THEN <<>>
  ELSE InsertByScore(s[Len(s)], SortByScore(SubSeq(s, 1, Len(s) - 1)))

Take(s, n) == SubSeq(s, 1, Min2(n, Len(s)))

\* The opportunities query: newest first.
RECURSIVE OppIdsNewestFirst(_)
OppIdsNewestFirst(n) == IF n = 0 THEN <<>> ELSE <<n>> \o OppIdsNewestFirst(n - 1)

RECURSIVE FilterSeq(_, _)
FilterSeq(s, keep) ==
  IF s = <<>> THEN <<>>
  ELSE (IF keep[Head(s)] THEN <<Head(s)>> ELSE <<>>) \o FilterSeq(Tail(s), keep)

\* The rows of the open-positions query, with the columns it selects.
OpenPositionRows == {[id |-> i] : i \in OpenIds}

\* openBySymbol, built from the selected rows: a row without a symbol column
\* reads as "" and is skipped.
BuildOpenBySymbol(rows) ==
  LET symbolOf(r) == IF "symbol" \in DOMAIN r THEN r.symbol ELSE ""
  IN [s \in Symbols |-> Cardinality({r \in rows : symbolOf(r) = s})]

\* scored: filter by the per-symbol cap, score, sort, slice; when the filter
\* leaves nothing, every opportunity is scored instead.
BuildScored(openBySymbol) ==
  LET ids == OppIdsNewestFirst(Len(opportunities))
      weights == trainWeights(TrainingRows)
      keep == [id \in 1..Len(opportunities) |->
                 openBySymbol[opportunities[id].symbol] < MAX_OPEN_PER_SYMBOL]
      rows(idSeq) == [k \in 1..Len(idSeq) |-> ScoredRow(idSeq[k], weights)]
      filtered == Take(SortByScore(rows(FilterSeq(ids, keep))), MAX_CANDIDATES)
  IN IF Len(filtered) = 0
     THEN Take(SortByScore(rows(ids)), MAX_CANDIDATES)
     ELSE filtered

LlmReplies == {"null", "score"}
\* A re-ranker score that outranks every rule score.
LlmScore == 0 - 100000

\* The re-rank loop: reply[id] is the re-ranker's answer for candidate id.
RECURSIVE Rerank(_, _, _, _, _)
Rerank(scored, k, remaining, used, reply) ==
  IF k > Len(scored) THEN [rows |-> <<>>, used |-> used, remaining |-> remaining]
  ELSE LET opp == scored[k]
           call == /\ opp.variant = "B"
                   /\ k <= MAX_LLM_RERANK
                   /\ remaining > 0
                   /\ used < MAX_LLM_CALLS_PER_TICK
           row == IF call /\ reply[opp.id] = "score"
                  THEN [opp EXCEPT !.aiScore = <<LlmScore>>,
                                   !.effectiveScore = LlmScore]
                  ELSE opp
           rest == Rerank(scored, k + 1,
                          IF call THEN remaining - 1 ELSE remaining,
                          IF call THEN used + 1 ELSE used, reply)
       IN [rows |-> <<row>> \o rest.rows, used |-> rest.used,
           remaining |-> rest.remaining]

\* ------------------------------------------------------- autoExecutePaper
\* A thrown error: the counts and reasons collected so far are lost with it.
ErrorResult(l) ==
  [status |-> "error", attempted |-> l.attempted, created |-> l.created,
   skipped |-> l.skipped, reason |-> "", reasons |-> <<>>]
OkResult(l, reason) ==
  [status |-> "ok", attempted |-> l.attempted, created |-> l.created,
   skipped |-> l.skipped, reason |-> reason, reasons |-> l.reasons]
ZeroResult == [status |-> "ok", attempted |-> 0, created |-> 0, skipped |-> 0,
               reason |-> "gate", reasons |-> <<>>]

DefaultAccount ==
  [exists |-> TRUE, balance_usd |-> Mills(DEFAULT_PAPER_BALANCE),
   reserved_usd |-> 0, min_notional_usd |-> Mills(DEFAULT_MIN_NOTIONAL),
   max_notional_usd |-> Mills(DEFAULT_MAX_NOTIONAL)]

\* The open-position cap and the hourly cap.
OpenCapExceeded(n) == n > MAX_OPEN_POSITIONS
OpenCapReached(n) == n >= MAX_OPEN_POSITIONS
HourCapReached(n) == n >= MAX_NEW_PER_HOUR

\* Read the account row, creating the default one when there is none.
TickAccount(p) ==
  /\ pc[p] = "idle" /\ CanStart
  /\ runs' = runs - 1
  /\ LET acct == IF account.exists THEN account ELSE DefaultAccount
     IN /\ account' = acct
        /\ Start(p, "t_open",
                 [LocInit EXCEPT !.balance = acct.balance_usd,
                                 !.reserved = acct.reserved_usd,
                                 !.minN = acct.min_notional_usd,
                                 !.maxN = acct.max_notional_usd])
  /\ UNCHANGED <<opportunities, positions, executions, decisions, aiUsage,
                 faults, now, snapshots, tick, serial,
                 dailyPnl>>

\* Read the open positions; stop at the open-position cap.
TickOpen(p) ==
  /\ pc[p] = "t_open"
  /\ IF OpenCapReached(Cardinality(OpenPositionRows))
     THEN Finish(p, ZeroResult)
     ELSE Goto(p, "t_recent",
               [loc[p] EXCEPT !.openBySymbol = BuildOpenBySymbol(OpenPositionRows)])
  /\ UNCHANGED <<dbVars, faults, runs, now, snapshots, tick, serial,
                 dailyPnl>>

\* Read the positions entered in the last hour; stop at the hourly cap.
TickRecent(p) ==
  /\ pc[p] = "t_recent"
  /\ IF HourCapReached(Cardinality(RecentIds))
     THEN Finish(p, ZeroResult)
     ELSE Goto(p, "t_score", loc[p])
  /\ UNCHANGED <<dbVars, faults, runs, now, snapshots, tick, serial,
                 dailyPnl>>

\* Read the opportunities, the training rows and the day's usage; score.
TickScore(p) ==
  /\ pc[p] = "t_score"
  /\ Goto(p, "t_llm",
          [loc[p] EXCEPT !.scored = BuildScored(loc[p].openBySymbol),
                         !.usage = aiUsage])
  /\ UNCHANGED <<dbVars, faults, runs, now, snapshots, tick, serial,
                 dailyPnl>>

\* The final sort and the loop's locals: available and reservedCurrent.
EnterLoopUnsorted(l, rows) ==
  [l EXCEPT !.scored = rows, !.idx = 1,
            !.available = Max2(0, l.balance - l.reserved)]
EnterLoop(l, rows) ==
  [l EXCEPT !.scored = SortByScore(rows), !.idx = 1,
            !.available = Max2(0, l.balance - l.reserved)]

\* remainingLlmCalls = max(0, MAX_LLM_CALLS_PER_DAY - requests).
RemainingLlmCallsUncapped(requests) == MAX_LLM_CALLS_PER_TICK
RemainingLlmCalls(requests) == Max2(0, MAX_LLM_CALLS_PER_DAY - requests)

\* The requests that scoreWithOpenAI sends in a tick whose loop called it
\* `used` times: none without OPENAI_API_KEY (it returns a null score before
\* the fetch), one per call with it.
RequestsSent(apiKey, used) == IF apiKey THEN used ELSE 0

\* The re-rank loop: each call answers with a score or with none, or the
\* fetch rejects and the job throws.  Without the API key every call
\* answers with none.
RerankOutcome(p, keys) ==
  \E reply \in [1..Len(opportunities) -> LlmReplies],
        rejects \in BOOLEAN, apiKey \in keys :
       LET l == loc[p]
           remaining == RemainingLlmCalls(l.usage)
           r == Rerank(l.scored, 1, remaining, 0, reply)
       IN IF r.used = 0
          THEN /\ ~rejects /\ apiKey
               /\ \A id \in DOMAIN reply : reply[id] = "null"
               /\ Goto(p, "t_loop", EnterLoop(l, r.rows))
          ELSE IF rejects
               THEN /\ apiKey
                    /\ \A id \in DOMAIN reply : reply[id] = "null"
                    /\ Finish(p, ErrorResult(l))
               ELSE /\ ~apiKey => \A id \in DOMAIN reply : reply[id] = "null"
                    /\ Goto(p, "t_usage",
                            [l EXCEPT !.scored = r.rows, !.llmUsed = r.used,
                                      !.sent = RequestsSent(apiKey, r.used)])

TickRerank(p) ==
  /\ pc[p] = "t_llm"
  /\ RerankOutcome(p, BOOLEAN)
  /\ UNCHANGED <<dbVars, faults, runs, now, snapshots, tick, serial,
                 dailyPnl>>

\* The same step with the wait for the re-ranker made visible: the fetch is
\* sent and scoreWithOpenAI awaits `done`, the fetch promise.  withTimeout's
\* timer calls controller.abort(); the signal it returns is not handed to
\* fetch, so the abort reaches nothing and `done` settles only when the
\* re-ranker answers or the connection fails.
WillCall(l) ==
  \E k \in 1..Len(l.scored) :
    /\ l.scored[k].variant = "B"
    /\ k <= MAX_LLM_RERANK
    /\ RemainingLlmCalls(l.usage) > 0

TickRerankSend(p) ==
  /\ pc[p] = "t_llm"
  /\ WillCall(loc[p])
  /\ Goto(p, "t_await", [loc[p] EXCEPT !.aborted = FALSE])
  /\ UNCHANGED <<dbVars, faults, runs, now, snapshots, tick, serial,
                 dailyPnl>>

\* TIMEOUT_MS have passed: controller.abort().
TimeoutFires(p) ==
  /\ pc[p] = "t_await"
  /\ ~loc[p].aborted
  /\ Goto(p, "t_await", [loc[p] EXCEPT !.aborted = TRUE])
  /\ UNCHANGED <<dbVars, faults, runs, now, snapshots, tick, serial,
                 dailyPnl>>

\* The re-ranker answers (or the connection fails): `done` settles and the
\* loop goes on as in TickRerank.
RerankerResponds(p) ==
  /\ pc[p] = "t_await"
  /\ RerankOutcome(p, {TRUE})
  /\ UNCHANGED <<dbVars, faults, runs, now, snapshots, tick, serial,
                 dailyPnl>>

\* Upsert the day's usage row (after the calls; the upsert's result is not
\* looked at), then sort again.
TickUsage(p) ==
  /\ pc[p] = "t_usage"
  /\ \E w \in WriteOutcomes :
       /\ Charge(w)
       /\ aiUsage' = IF w = "error" THEN aiUsage
                     ELSE loc[p].usage + loc[p].llmUsed
  /\ Goto(p, "t_loop", EnterLoop([loc[p] EXCEPT !.sent = 0], loc[p].scored))
  /\ UNCHANGED <<account, opportunities, positions, executions, decisions,
                 runs, now, snapshots, tick, serial,
                 dailyPnl>>

\* The candidate of the current loop turn.
Cand(p) == loc[p].scored[loc[p].idx]

\* Loop head: insert the decision row of the next candidate (chosen = false),
\* or return when the slice is exhausted.
TickDecision(p) ==
  /\ pc[p] = "t_loop"
  /\ LET l == loc[p]
     IN IF l.idx > Len(Take(l.scored, MAX_EXECUTE_PER_TICK))
        THEN /\ Finish(p, OkResult(l, ""))
             /\ UNCHANGED decisions
        ELSE /\ decisions' = Append(decisions,
                 [opportunity_id |-> Cand(p).id, variant |-> Cand(p).variant,
                  chosen |-> FALSE, position_id |-> 0])
             /\ Goto(p, "t_existing",
                     [l EXCEPT !.attempted = @ + 1,
                               !.dec = Len(decisions) + 1])
  /\ UNCHANGED <<account, opportunities, positions, executions, aiUsage,
                 faults, runs, now, snapshots, tick, serial,
                 dailyPnl>>

\* One loop turn ends without a position: count the skip, push the reason,
\* next candidate.
Skip(p, reason) ==
  Goto(p, "t_loop",
       [loc[p] EXCEPT !.skipped = @ + 1, !.idx = @ + 1,
                      !.reasons = Append(@, [id |-> Cand(p).id,
                                             reason |-> reason])])

\* notional_usd > available: the candidate (or the request) is refused.
InsufficientBalanceNever(notional, available) == FALSE
InsufficientBalance(notional, available) == notional > available

\* Look for an open position of this opportunity (maybeSingle: more than
\* one matching row is an error), then size the position.
TickExisting(p) ==
  /\ pc[p] = "t_existing"
  /\ LET l == loc[p]
         opp == opportunities[Cand(p).id]
         existing == OpenForOpp(Cand(p).id)
         notional == deriveNotional(opp, l.minN, l.maxN)
     IN IF Cardinality(existing) > 1 THEN Finish(p, ErrorResult(l))
        ELSE IF existing # {} THEN Skip(p, "already_open")
        ELSE IF InsufficientBalance(notional, l.available)
             THEN Skip(p, "insufficient_balance")
        ELSE IF opp.type \in {"spot_perp_carry", "xarb_spot", "tri_arb"}
             THEN Goto(p, "t_quote", [l EXCEPT !.notional = notional])
             ELSE Skip(p, "execution_not_supported")
  /\ UNCHANGED <<dbVars, faults, runs, now, snapshots, tick, serial,
                 dailyPnl>>

\* Entry prices: the carry snapshot, the live xarb quotes, the triangle
\* prices.  A missing snapshot, a failed quote or an evaporated edge skips.
QuoteOutcomes == {"ok", "skip"}
TickQuote(p) ==
  /\ pc[p] = "t_quote"
  /\ \E q \in QuoteOutcomes :
       IF q = "ok" THEN Goto(p, "t_pos", loc[p]) ELSE Skip(p, "no_price")
  /\ UNCHANGED <<dbVars, faults, runs, now, snapshots, tick, serial,
                 dailyPnl>>

\* realized_pnl_usd is null while a position is open; a set value is kept
\* as a one-element sequence.
NoPnl == <<>>
Pnl(v) == <<v>>

\* The triangle is walked at the live prices: realized = amount - notional,
\* positive or the candidate was skipped ("edge_evaporated").
TriRealized(opp, notional) == (notional * opp.net_edge_bps) \div 10000

\* The position row a handler inserts.
NewPositionOpen(oppId, notional, auto) ==
  LET opp == opportunities[oppId]
  IN [opportunity_id |-> oppId, symbol |-> opp.symbol, type |-> opp.type,
      status |-> "open", age |-> 0, notional_usd |-> notional, auto |-> auto,
      exit_by |-> "", exit_ts |-> Missing, realized_pnl_usd |-> NoPnl]
NewPosition(oppId, notional, auto) ==
  LET opp == opportunities[oppId]
      tri == opp.type = "tri_arb" /\ auto
  IN [opportunity_id |-> oppId, symbol |-> opp.symbol, type |-> opp.type,
      status |-> IF tri THEN "closed" ELSE "open",
      age |-> 0, notional_usd |-> notional, auto |-> auto,
      exit_by |-> IF tri THEN "tri" ELSE "",
      exit_ts |-> IF tri THEN now ELSE Missing,
      realized_pnl_usd |-> IF tri THEN Pnl(TriRealized(opp, notional))
                           ELSE NoPnl]

\* Insert the position (open, or closed at once for a triangle).
\* A tick that reserves the notional as it inserts the position.
TickPositionReserving(p) ==
  /\ pc[p] = "t_pos"
  /\ \E w \in WriteOutcomes :
       /\ Charge(w)
       /\ IF w = "error"
          THEN /\ Finish(p, ErrorResult(loc[p]))
               /\ UNCHANGED <<positions, account>>
          ELSE /\ positions' = Append(positions,
                     NewPosition(Cand(p).id, loc[p].notional, TRUE))
               /\ account' = [account EXCEPT !.reserved_usd =
                                ToFixed2(loc[p].reserved + loc[p].notional)]
               /\ Goto(p, "t_exec", [loc[p] EXCEPT !.pos = Len(positions) + 1])
  /\ UNCHANGED <<opportunities, executions, decisions, aiUsage,
                 runs, now, snapshots, tick, serial,
                 dailyPnl>>

TickPosition(p) ==
  /\ pc[p] = "t_pos"
  /\ \E w \in WriteOutcomes :
       /\ Charge(w)
       /\ IF w = "error"
          THEN /\ Finish(p, ErrorResult(loc[p]))
               /\ UNCHANGED positions
          ELSE /\ positions' = Append(positions,
                     NewPosition(Cand(p).id, loc[p].notional, TRUE))
               /\ Goto(p, "t_exec", [loc[p] EXCEPT !.pos = Len(positions) + 1])
  /\ UNCHANGED <<account, opportunities, executions, decisions, aiUsage,
                 runs, now, snapshots, tick, serial,
                 dailyPnl>>

\* Insert the entry executions; on an error the job throws and the
\* position inserted before stays as it is.
TickExecutions(p) ==
  /\ pc[p] = "t_exec"
  /\ \E w \in WriteOutcomes :
       /\ Charge(w)
       /\ IF w = "error"
          THEN /\ Finish(p, ErrorResult(loc[p]))
               /\ UNCHANGED executions
          ELSE /\ executions' = executions \cup
                     {EntryExecutions(loc[p].pos)}
               /\ IF positions[loc[p].pos].type = "tri_arb"
                  THEN Goto(p, "t_chosen", [loc[p] EXCEPT !.created = @ + 1])
                  ELSE Goto(p, "t_reserve", loc[p])
  /\ UNCHANGED <<account, opportunities, positions, decisions, aiUsage,
                 runs, now, snapshots, tick, serial,
                 dailyPnl>>

\* reservedCurrent = toFixed2(reservedCurrent + notional), written to the
\* account row by id.
ReserveValue(reserved, notional) == ToFixed2(reserved + notional)

TickReserve(p) ==
  /\ pc[p] = "t_reserve"
  /\ \E w \in WriteOutcomes :
       LET l == loc[p]
           next == ReserveValue(l.reserved, l.notional)
       IN /\ Charge(w)
          /\ IF w = "error"
             THEN /\ Finish(p, ErrorResult(l))
                  /\ UNCHANGED account
             ELSE /\ account' = [account EXCEPT !.reserved_usd = next]
                  /\ Goto(p, "t_chosen",
                          [l EXCEPT !.reserved = next,
                                    !.available = ToFixed2(@ - l.notional),
                                    !.created = @ + 1])
  /\ UNCHANGED <<opportunities, positions, executions, decisions, aiUsage,
                 runs, now, snapshots, tick, serial,
                 dailyPnl>>

\* Mark the decision row chosen and go to the next candidate.
TickChosen(p) ==
  /\ pc[p] = "t_chosen"
  /\ decisions' = [decisions EXCEPT ![loc[p].dec] =
                     [@ EXCEPT !.chosen = TRUE, !.position_id = loc[p].pos]]
  /\ Goto(p, "t_loop", [loc[p] EXCEPT !.idx = @ + 1])
  /\ UNCHANGED <<account, opportunities, positions, executions, aiUsage,
                 faults, runs, now, snapshots, tick, serial,
                 dailyPnl>>

autoExecutePaper(p) ==
  \/ TickAccount(p) \/ TickOpen(p) \/ TickRecent(p) \/ TickScore(p)
  \/ TickRerank(p) \/ TickUsage(p) \/ TickDecision(p) \/ TickExisting(p)
  \/ TickQuote(p) \/ TickPosition(p) \/ TickExecutions(p) \/ TickReserve(p)
  \/ TickChosen(p)

\* ---------------------------------------------------------- autoClosePaper
\* The ids of a set of positions in table order.
RECURSIVE IdSeq(_, _)
IdSeq(S, i) ==
  IF i > Len(positions) THEN <<>>
  ELSE IF i \in S THEN <<i>> \o IdSeq(S, i + 1) ELSE IdSeq(S, i + 1)

\* Read the account row (creating it when missing) and the open positions.
CloseRead(p) ==
  /\ pc[p] = "idle" /\ CanStart
  /\ runs' = runs - 1
  /\ LET acct == IF account.exists THEN account ELSE DefaultAccount
     IN /\ account' = acct
        /\ Start(p, "c_next",
                 [LocInit EXCEPT !.reserved = acct.reserved_usd,
                                 !.todo = IdSeq(OpenIds, 1)])
  /\ UNCHANGED <<opportunities, positions, executions, decisions, aiUsage,
                 faults, now, snapshots, tick, serial,
                 dailyPnl>>


\* fee + slippage + transfer, the costs of a carry in bps.
CarryCostsBps == 6 + 4 + 2

FEE_BPS == 4
TP_PCT_BPS == 30
SL_PCT_BPS == 20
HOLDING_HOURS == 24
COSTS_BPS_XARB == 6 + 4 + 8

\* The entry fills a position row holds, in price ticks: entry_spot_price and
\* entry_perp_price of a carry position, meta.buy_entry_price and
\* meta.sell_entry_price of a cross-exchange one.
EntryFills(type) ==
  IF type = "spot_perp_carry" THEN [a |-> 10000, b |-> 10020]
  ELSE [a |-> 10000, b |-> 10030]


CarryAnswers ==
  { Answer(TRUE, 9999, 10001, 10019, 10021, 12),    \* nothing moved
    Answer(TRUE, 9999, 10001, 9987, 9989, 30),      \* take-profit
    Answer(TRUE, 9999, 10001, 10041, 10043, 12),    \* stop-loss
    Answer(TRUE, 9999, 10001, 10019, 10021, 0),     \* funding at zero
    Answer(TRUE, 9999, 10001, 10004, 10006, 3),     \* edge gone
    Answer(TRUE, 9999, 10001, 10019, 10021, Missing),
    Answer(TRUE, Missing, 10001, 10019, 10021, 12),
    NoAnswer }

XarbAnswers ==
  { Answer(TRUE, 9999, 10001, 10029, 10031, 0),     \* nothing moved
    Answer(TRUE, 9999, 10001, 10049, 10051, 0),     \* stop-loss
    Answer(TRUE, 9999, 10001, 10009, 10011, 0),     \* edge gone
    Answer(TRUE, 9999, 10001, 10029, Missing, 0),
    NoAnswer }

\* toNumber(value ?? null): Number(null) is 0, which is finite.
toNumber(value) == IF value = Missing THEN 0 ELSE value

Thrown == [thrown |-> TRUE, a_bid |-> 0, a_ask |-> 0, b_bid |-> 0, b_ask |-> 0,
           funding |-> 0]

\* fetchCarryQuotes: bybit and okx only; throws on a failed request and on
\* a missing or crossed bid/ask.  The funding rate is passed on as read.
fetchCarryQuotes(exchange, answer) ==
  LET spot_bid == toNumber(answer.a_bid)
      spot_ask == toNumber(answer.a_ask)
      perp_bid == toNumber(answer.b_bid)
      perp_ask == toNumber(answer.b_ask)
  IN IF exchange \notin {"bybit", "okx"} \/ ~answer.ok THEN Thrown
     ELSE IF spot_bid = 0 \/ spot_ask = 0 \/ perp_bid = 0 \/ perp_ask = 0
             \/ spot_ask <= spot_bid \/ perp_ask <= perp_bid
          THEN Thrown
          ELSE [thrown |-> FALSE, a_bid |-> spot_bid, a_ask |-> spot_ask,
                b_bid |-> perp_bid, b_ask |-> perp_ask,
                funding |-> toNumber(answer.funding)]

\* fetchSpotTicker on the buy and on the sell venue (Promise.all).
fetchSpotTickers(answer) ==
  LET buy_bid == toNumber(answer.a_bid)
      buy_ask == toNumber(answer.a_ask)
      sell_bid == toNumber(answer.b_bid)
      sell_ask == toNumber(answer.b_ask)
  IN IF ~answer.ok THEN Thrown
     ELSE IF buy_bid = 0 \/ buy_ask = 0 \/ buy_ask <= buy_bid
             \/ sell_bid = 0 \/ sell_ask = 0 \/ sell_ask <= sell_bid
          THEN Thrown
          ELSE [thrown |-> FALSE, a_bid |-> buy_bid, a_ask |-> buy_ask,
                b_bid |-> sell_bid, b_ask |-> sell_ask, funding |-> 0]

\* shouldCloseByPnl: pnl / notional >= TP_PCT or <= -SL_PCT.
shouldCloseByProfitOnly(pnlUsd, notionalUsd) ==
  notionalUsd > 0 /\ 10000 * pnlUsd >= TP_PCT_BPS * notionalUsd
shouldCloseByPnl(pnlUsd, notionalUsd) ==
  IF notionalUsd <= 0 THEN FALSE
  ELSE \/ 10000 * pnlUsd >= TP_PCT_BPS * notionalUsd
       \/ 10000 * pnlUsd <= 0 - SL_PCT_BPS * notionalUsd

\* Carry: qty = notional / entry fill (long spot, short perp), marked at the
\* mids; mids are kept doubled (bid + ask).
CarryUnrealized(notional, q) ==
  LET e == EntryFills("spot_perp_carry")
  IN (notional * ((q.a_bid + q.a_ask) - 2 * e.a)) \div (2 * e.a)
       - (notional * ((q.b_bid + q.b_ask) - 2 * e.b)) \div (2 * e.b)

CarryNetEdgeBps(q) ==
  LET basis_bps == (10000 * ((q.b_bid + q.b_ask) - (q.a_bid + q.a_ask)))
                     \div (q.a_bid + q.a_ask)
      expected_holding_bps == (q.funding * HOLDING_HOURS) \div 24
  IN basis_bps + expected_holding_bps - CarryCostsBps

CarryShouldClose(notional, q) ==
  \/ shouldCloseByPnl(CarryUnrealized(notional, q), notional)
  \/ q.funding <= 0
  \/ CarryNetEdgeBps(q) < 0

\* Cross-exchange: the bought leg marked at the buy venue's bid, the sold
\* leg at the sell venue's ask.
XarbUnrealized(notional, q) ==
  LET e == EntryFills("xarb_spot")
  IN (notional * (q.a_bid - e.a)) \div e.a
       + (notional * (e.b - q.b_ask)) \div e.b

XarbNetEdgeBps(q) ==
  (10000 * (q.b_bid - q.a_ask)) \div q.a_ask - COSTS_BPS_XARB

XarbShouldClose(notional, q) ==
  \/ shouldCloseByPnl(XarbUnrealized(notional, q), notional)
  \/ XarbNetEdgeBps(q) < 0

\* paperFill's fee_usd, and the realized PnL of a close: the unrealized PnL
\* less the fees of the two exit fills.
FeeUsd(notional) == (notional * FEE_BPS) \div 10000
RealizedPnlGross(unrealized, notional) == unrealized
RealizedPnl(unrealized, notional) == unrealized - FeeUsd(notional) - FeeUsd(notional)

\* Loop head: the next position read, with its live quotes.  The quote
\* fetch may throw (skip, "live_price_error"), the rules may say hold, or
\* the position is to be closed at the quoted prices.
CloseDecide(p) ==
  /\ pc[p] = "c_next"
  /\ LET l == loc[p]
     IN IF l.todo = <<>>
        THEN Finish(p, OkResult(l, ""))
        ELSE LET i == Head(l.todo)
                 row == positions[i]
                 opp == opportunities[row.opportunity_id]
                 m == [l EXCEPT !.attempted = @ + 1, !.pos = i,
                                !.notional = row.notional_usd]
                 skip(a, reason) ==
                   Goto(p, "c_next",
                        [m EXCEPT !.skipped = @ + 1, !.todo = Tail(@),
                                  !.answer = a,
                                  !.reasons = Append(@, [id |-> i,
                                                         reason |-> reason])])
                 close(a, unrealized) ==
                   Goto(p, "c_update", [m EXCEPT !.unrealized = unrealized,
                                                 !.answer = a])
             IN IF opp.type = "spot_perp_carry"
                THEN \E a \in CarryAnswers :
                       LET q == fetchCarryQuotes(opp.exchange, a)
                       IN IF q.thrown THEN skip(a, "live_price_error")
                          ELSE IF ~CarryShouldClose(m.notional, q)
                               THEN skip(a, "hold")
                               ELSE close(a, CarryUnrealized(m.notional, q))
                ELSE IF opp.type = "xarb_spot"
                THEN IF ~row.auto THEN skip(NoAnswer, "missing_meta")
                     ELSE \E a \in XarbAnswers :
                            LET q == fetchSpotTickers(a)
                            IN IF q.thrown THEN skip(a, "live_price_error")
                               ELSE IF ~XarbShouldClose(m.notional, q)
                                    THEN skip(a, "hold")
                                    ELSE close(a, XarbUnrealized(m.notional, q))
                ELSE skip(NoAnswer, "unsupported_type")
  /\ UNCHANGED <<dbVars, faults, runs, now, snapshots, tick, serial,
                 dailyPnl>>

\* update positions set status = closed, exit prices, realized pnl (exit_by
\* records whose exit fields the row holds)
\* where id = ? and status = 'open'.  No row matching is not an error.
ClosePositionRowAnyStatus(i, by, realized) ==
  [positions EXCEPT ![i] = [@ EXCEPT !.status = "closed", !.exit_by = by,
                                     !.exit_ts = now,
                                     !.realized_pnl_usd = Pnl(realized)]]
ClosePositionRow(i, by, realized) ==
  IF positions[i].status = "open"
  THEN [positions EXCEPT ![i] = [@ EXCEPT !.status = "closed",
                                          !.exit_by = by, !.exit_ts = now,
                                          !.realized_pnl_usd = Pnl(realized)]]
  ELSE positions

CloseUpdate(p) ==
  /\ pc[p] = "c_update"
  /\ \E w \in WriteOutcomes :
       /\ Charge(w)
       /\ IF w = "error"
          THEN /\ Finish(p, ErrorResult(loc[p]))
               /\ UNCHANGED positions
          ELSE /\ positions' =
                    ClosePositionRow(loc[p].pos, "auto",
                        RealizedPnl(loc[p].unrealized, loc[p].notional))
               /\ Goto(p, "c_exec", loc[p])
  /\ UNCHANGED <<account, opportunities, executions, decisions, aiUsage,
                 runs, now, snapshots, tick, serial,
                 dailyPnl>>

\* Insert the exit executions; an error throws.
CloseExecutions(p) ==
  /\ pc[p] = "c_exec"
  /\ \E w \in WriteOutcomes :
       /\ Charge(w)
       /\ IF w = "error"
          THEN /\ Finish(p, ErrorResult(loc[p]))
               /\ UNCHANGED executions
          ELSE /\ executions' = executions \cup
                     {ExitExecutions(loc[p].pos)}
               /\ Goto(p, "c_ledger", loc[p])
  /\ UNCHANGED <<account, opportunities, positions, decisions, aiUsage,
                 runs, now, snapshots, tick, serial,
                 dailyPnl>>

\* reservedCurrent = toFixed2(reservedCurrent - notional); the row gets
\* max(0, reservedCurrent).  The write's error is not looked at.
ReleaseValue(reserved, notional) == ToFixed2(reserved - notional)

CloseLedger(p) ==
  /\ pc[p] = "c_ledger"
  /\ \E w \in WriteOutcomes :
       LET l == loc[p]
           next == ReleaseValue(l.reserved, l.notional)
       IN /\ Charge(w)
          /\ account' = IF w = "error" THEN account
                        ELSE [account EXCEPT !.reserved_usd = Max2(0, next)]
          /\ Goto(p, "c_next", [l EXCEPT !.reserved = next,
                                         !.created = @ + 1,
                                         !.todo = Tail(@)])
  /\ UNCHANGED <<opportunities, positions, executions, decisions, aiUsage,
                 runs, now, snapshots, tick, serial,
                 dailyPnl>>

autoClosePaper(p) ==
  \/ CloseRead(p) \/ CloseDecide(p) \/ CloseUpdate(p) \/ CloseExecutions(p)
  \/ CloseLedger(p)

\* ------------------------------------------- manual close (POST handler)
\* Exit at the snapshot's spot bid and perp ask, here the entry prices:
\* realized = toFixed2(-closeFeeUsd), closeFeeUsd = notional * feeBps * 2 / 10000.
ManualRealized(notional) == ToFixed2(0 - (notional * FEE_BPS * 2) \div 10000)

\* Read the position; 404 when missing, 400 when not open or when the
\* snapshot has no exit prices.
ManualCloseRead(p) ==
  /\ pc[p] = "idle" /\ CanStart
  /\ runs' = runs - 1
  /\ \E i \in PosIds, q \in QuoteOutcomes :
       IF positions[i].status # "open" \/ q = "skip"
       THEN Reply(p, [NoResult EXCEPT !.status = "rejected"])
       ELSE Start(p, "mc_update",
                  [LocInit EXCEPT !.pos = i,
                                  !.notional = positions[i].notional_usd])
  /\ UNCHANGED <<dbVars, faults, now, snapshots, tick, serial,
                 dailyPnl>>

ManualCloseUpdate(p) ==
  /\ pc[p] = "mc_update"
  /\ \E w \in WriteOutcomes :
       /\ Charge(w)
       /\ IF w = "error"
          THEN /\ Finish(p, ErrorResult(loc[p]))
               /\ UNCHANGED positions
          ELSE /\ positions' = ClosePositionRow(loc[p].pos, "manual",
                                     ManualRealized(loc[p].notional))
               /\ IF loc[p].notional > 0
                  THEN Goto(p, "mc_acct", loc[p])
                  ELSE Finish(p, [NoResult EXCEPT !.status = "ok"])
  /\ UNCHANGED <<account, opportunities, executions, decisions, aiUsage,
                 runs, now, snapshots, tick, serial,
                 dailyPnl>>

\* Re-read the account row for the release.
ManualCloseAccount(p) ==
  /\ pc[p] = "mc_acct"
  /\ IF account.exists
     THEN Goto(p, "mc_write", [loc[p] EXCEPT !.reserved = account.reserved_usd])
     ELSE Finish(p, [NoResult EXCEPT !.status = "ok"])
  /\ UNCHANGED <<dbVars, faults, runs, now, snapshots, tick, serial,
                 dailyPnl>>

\* nextReserved = max(0, reserved - notional), written rounded to cents.
ManualReleaseValue(reserved, notional) == ToFixed2(Max2(0, reserved - notional))

ManualCloseWrite(p) ==
  /\ pc[p] = "mc_write"
  /\ \E w \in WriteOutcomes :
       /\ Charge(w)
       /\ IF w = "error"
          THEN /\ Finish(p, ErrorResult(loc[p]))
               /\ UNCHANGED account
          ELSE /\ account' = [account EXCEPT !.reserved_usd =
                     ManualReleaseValue(loc[p].reserved, loc[p].notional)]
               /\ Finish(p, [NoResult EXCEPT !.status = "ok", !.created = 1])
  /\ UNCHANGED <<opportunities, positions, executions, decisions, aiUsage,
                 runs, now, snapshots, tick, serial,
                 dailyPnl>>

manualClose(p) ==
  \/ ManualCloseRead(p) \/ ManualCloseUpdate(p) \/ ManualCloseAccount(p)
  \/ ManualCloseWrite(p)

\* ----------------------------------------- manual execute (POST handler)
NoRequest == 0 - 1
RequestedNotionals == {NoRequest, Mills(300)}

\* A 400 answer with its error text.
Rejected(error) == [NoResult EXCEPT !.status = "rejected", !.reason = error]

\* positions of the opportunity that are open and entered within
\* IDEMPOTENT_MINUTES.
ReusablePositions(o) == {i \in OpenForOpp(o) : positions[i].age = 0}

\* Read the opportunity, look for a position to reuse, read (or create)
\* the account, size the position, read the snapshot.
ManualExecuteRead(p) ==
  /\ pc[p] = "idle" /\ CanStart
  /\ runs' = runs - 1
  /\ \E o \in 1..Len(opportunities), req \in RequestedNotionals,
        q \in QuoteOutcomes :
       IF ReusablePositions(o) # {}
       THEN /\ req = NoRequest /\ q = "ok"
            /\ Reply(p, [NoResult EXCEPT !.status = "reused"])
            /\ UNCHANGED account
       ELSE LET acct == IF account.exists THEN account ELSE DefaultAccount
                available == Max2(0, acct.balance_usd - acct.reserved_usd)
                minN == acct.min_notional_usd
                maxN == acct.max_notional_usd
                notional == IF req # NoRequest
                            THEN clampNotional(req, minN, maxN)
                            ELSE deriveNotional(opportunities[o], minN, maxN)
            IN /\ account' = acct
               /\ IF minN > maxN
                  THEN Reply(p, Rejected("Paper settings are invalid (min > max)."))
                  ELSE IF InsufficientBalance(notional, available)
                  THEN Reply(p, Rejected("Nincs eleg paper toke."))
                  ELSE IF q = "skip"
                  THEN Reply(p, Rejected("Missing snapshot prices."))
                  ELSE Start(p, "me_pos",
                             [LocInit EXCEPT !.arg = o, !.notional = notional,
                                             !.reserved = acct.reserved_usd,
                                             !.available = available])
  /\ UNCHANGED <<opportunities, positions, executions, decisions, aiUsage,
                 faults, now, snapshots, tick, serial,
                 dailyPnl>>

ManualExecutePosition(p) ==
  /\ pc[p] = "me_pos"
  /\ \E w \in WriteOutcomes :
       /\ Charge(w)
       /\ IF w = "error"
          THEN /\ Finish(p, ErrorResult(loc[p]))
               /\ UNCHANGED positions
          ELSE /\ positions' = Append(positions,
                     NewPosition(loc[p].arg, loc[p].notional, FALSE))
               /\ Goto(p, "me_exec", [loc[p] EXCEPT !.pos = Len(positions) + 1])
  /\ UNCHANGED <<account, opportunities, executions, decisions, aiUsage,
                 runs, now, snapshots, tick, serial,
                 dailyPnl>>

\* Insert the entry executions; on an error the handler answers 500 and
\* the position inserted before stays as it is.
ManualExecuteExecutions(p) ==
  /\ pc[p] = "me_exec"
  /\ \E w \in WriteOutcomes :
       /\ Charge(w)
       /\ IF w = "error"
          THEN /\ Finish(p, ErrorResult(loc[p]))
               /\ UNCHANGED executions
          ELSE /\ executions' = executions \cup
                     {EntryExecutions(loc[p].pos)}
               /\ Goto(p, "me_reserve", loc[p])
  /\ UNCHANGED <<account, opportunities, positions, decisions, aiUsage,
                 runs, now, snapshots, tick, serial,
                 dailyPnl>>

ManualExecuteReserve(p) ==
  /\ pc[p] = "me_reserve"
  /\ \E w \in WriteOutcomes :
       /\ Charge(w)
       /\ IF w = "error"
          THEN /\ Finish(p, ErrorResult(loc[p]))
               /\ UNCHANGED account
          ELSE /\ account' = [account EXCEPT !.reserved_usd =
                     ReserveValue(loc[p].reserved, loc[p].notional)]
               /\ Finish(p, [NoResult EXCEPT !.status = "ok", !.created = 1])
  /\ UNCHANGED <<opportunities, positions, executions, decisions, aiUsage,
                 runs, now, snapshots, tick, serial,
                 dailyPnl>>

manualExecute(p) ==
  \/ ManualExecuteRead(p) \/ ManualExecutePosition(p)
  \/ ManualExecuteExecutions(p) \/ ManualExecuteReserve(p)

\* ------------------------------------------- paper settings (POST handler)
\* Request bodies: the defaults, a small balance, amounts with a fraction
\* of a cent, a balance of zero.
SettingsBodies ==
  { [balance_usd |-> Mills(DEFAULT_PAPER_BALANCE),
     min_notional_usd |-> Mills(DEFAULT_MIN_NOTIONAL),
     max_notional_usd |-> Mills(DEFAULT_MAX_NOTIONAL)],
    [balance_usd |-> Mills(300), min_notional_usd |-> Mills(100),
     max_notional_usd |-> Mills(500)],
    [balance_usd |-> Mills(100) + 6, min_notional_usd |-> Mills(100) + 6,
     max_notional_usd |-> Mills(100) + 6],
    [balance_usd |-> 0, min_notional_usd |-> Mills(100),
     max_notional_usd |-> Mills(500)] }

ValidSettings(body) ==
  /\ body.balance_usd > 0
  /\ body.min_notional_usd > 0
  /\ body.max_notional_usd > 0
  /\ body.min_notional_usd <= body.max_notional_usd

\* Validate the body, read the account's reserved amount, refuse a balance
\* below it.
SettingsRead(p) ==
  /\ pc[p] = "idle" /\ CanStart
  /\ runs' = runs - 1
  /\ \E body \in SettingsBodies :
       LET reserved == IF account.exists THEN account.reserved_usd ELSE 0
       IN IF ~ValidSettings(body) \/ body.balance_usd < reserved
          THEN Reply(p, [NoResult EXCEPT !.status = "rejected"])
          ELSE Start(p, "s_write",
                     [LocInit EXCEPT !.balance = body.balance_usd,
                                     !.minN = body.min_notional_usd,
                                     !.maxN = body.max_notional_usd,
                                     !.arg = IF account.exists THEN 1 ELSE 0])
  /\ UNCHANGED <<dbVars, faults, now, snapshots, tick, serial,
                 dailyPnl>>

\* Update balance and notional bounds of the row read (reserved_usd is not
\* part of the update), or insert the row with reserved_usd = 0.
SettingsWrite(p) ==
  /\ pc[p] = "s_write"
  /\ \E w \in WriteOutcomes :
       LET l == loc[p]
       IN /\ Charge(w)
          /\ IF w = "error"
             THEN /\ Finish(p, ErrorResult(l))
                  /\ UNCHANGED account
             ELSE /\ account' =
                       IF l.arg = 1
                       THEN [account EXCEPT !.balance_usd = l.balance,
                                            !.min_notional_usd = l.minN,
                                            !.max_notional_usd = l.maxN]
                       ELSE IF account.exists THEN account
                       ELSE [exists |-> TRUE, balance_usd |-> l.balance,
                             reserved_usd |-> 0, min_notional_usd |-> l.minN,
                             max_notional_usd |-> l.maxN]
                  /\ Finish(p, [NoResult EXCEPT !.status = "ok"])
  /\ UNCHANGED <<opportunities, positions, executions, decisions, aiUsage,
                 runs, now, snapshots, tick, serial,
                 dailyPnl>>

paperSettings(p) == SettingsRead(p) \/ SettingsWrite(p)

\* ------------------------------------------------------------ environment
\* A detector run has inserted an opportunity.
InsertOpportunity ==
  /\ Len(opportunities) < MaxOpps
  /\ serial => AllIdle
  /\ \E k \in OppKinds : opportunities' = Append(opportunities, OppRow(k, now))
  /\ Delivered
  /\ UNCHANGED <<account, positions, executions, decisions, aiUsage, pc,
                 faults, runs, now, snapshots, tick, serial,
                 dailyPnl>>

\* Time passes: five minutes (positions under five minutes old are now
\* under an hour old) or an hour (every position is older than an hour).
AdvanceClock ==
  /\ serial => AllIdle
  /\ \E step \in {1, 2} :
       /\ \E i \in PosIds : positions[i].age < step
       /\ positions' = [i \in PosIds |->
                          [positions[i] EXCEPT !.age = Max2(@, step)]]
  /\ Delivered
  /\ UNCHANGED <<account, opportunities, executions, decisions, aiUsage, pc,
                 faults, runs, now, snapshots, tick, serial,
                 dailyPnl>>

\* ------------------------------------------------------------- detectors
\* Snapshots as ingested: validity of the four prices, funding in bps per
\* day, the basis between the mids, the basis between perp bid and spot ask.
SnapshotKinds ==
  { [valid |-> TRUE, funding_daily_bps |-> 60, entry_basis_bps |-> 0 - 9,
     basis_bps |-> 0 - 12],
    [valid |-> TRUE, funding_daily_bps |-> 12, entry_basis_bps |-> 8,
     basis_bps |-> 1],
    [valid |-> TRUE, funding_daily_bps |-> 3, entry_basis_bps |-> 8,
     basis_bps |-> 7],
    [valid |-> TRUE, funding_daily_bps |-> 3, entry_basis_bps |-> 2,
     basis_bps |-> 1],
    [valid |-> TRUE, funding_daily_bps |-> 0, entry_basis_bps |-> 6,
     basis_bps |-> 5],
    [valid |-> FALSE, funding_daily_bps |-> 0, entry_basis_bps |-> 0,
     basis_bps |-> 0] }

\* detectCarry's row of the evaluated list; the next job's start leaves it
\* behind.
Evaluated(decision, reason) ==
  [NoResult EXCEPT !.status = decision, !.reason = reason]
Forgotten == loc' = [loc EXCEPT !["detect"] = LocInit]

\* ingestBinance has stored a snapshot of the symbol.
IngestSnapshot ==
  /\ Len(snapshots) < MaxSnapshots
  /\ \E k \in SnapshotKinds :
       snapshots' = Append(snapshots,
         [ts |-> now, exchange |-> "binance", symbol |-> "BTCUSDT",
          valid |-> k.valid, funding_daily_bps |-> k.funding_daily_bps,
          entry_basis_bps |-> k.entry_basis_bps, basis_bps |-> k.basis_bps])
  /\ Forgotten
  /\ UNCHANGED <<dbVars, pc, faults, runs, now, tick, serial,
                 dailyPnl>>

\* A minute passes.
AdvanceTime ==
  /\ now < MaxNow
  /\ now' = now + 1
  /\ Forgotten
  /\ UNCHANGED <<dbVars, pc, faults, runs, snapshots, tick, serial,
                 dailyPnl>>

\* select id from opportunities where exchange, symbol, type match and
\* ts >= now - IDEMPOTENT_MINUTES.
RecentOpportunity(exchange, symbol, type) ==
  \E i \in 1..Len(opportunities) :
    /\ opportunities[i].exchange = exchange
    /\ opportunities[i].symbol = symbol
    /\ opportunities[i].type = type
    /\ opportunities[i].ts >= now - IDEMPOTENT_MINUTES

\* The snapshots of the lookback window, and the latest valid one.
InWindow == {i \in 1..Len(snapshots) : snapshots[i].ts >= now - LOOKBACK_MINUTES}
ValidInWindow == {i \in InWindow : snapshots[i].valid}
LatestValid ==
  CHOOSE i \in ValidInWindow :
    \A j \in ValidInWindow : snapshots[j].ts < snapshots[i].ts
                              \/ (snapshots[j].ts = snapshots[i].ts /\ j <= i)

\* break_even_hours in hundredths of an hour:
\* max(0, toFixed2(24 * (costs - basis) / funding)).
BreakEvenCenti(basis, funding) ==
  Max2(0, ToFixed2((24000 * (TOTAL_COSTS_BPS - basis)) \div funding) \div 10)

\* spotPerpCarry: the opportunity payload, or nothing below the minimum edge.
spotPerpCarry(snapshot) ==
  LET net == snapshot.basis_bps + snapshot.funding_daily_bps - CarryCostsBps
  IN IF net < CARRY_MIN_NET_EDGE_BPS THEN {}
     ELSE {[type |-> "spot_perp_carry", exchange |-> snapshot.exchange,
            symbol |-> snapshot.symbol, net_edge_bps |-> net,
            break_even_hours |->
              BreakEvenCenti(snapshot.entry_basis_bps,
                             snapshot.funding_daily_bps) \div 100,
            confidence |-> 70]}

\* detectCarry's verdict on a snapshot (holding_hours = 24), before the
\* idempotency query.
CarryDecision(snapshot) ==
  LET funding == snapshot.funding_daily_bps
      net == snapshot.entry_basis_bps + funding - TOTAL_COSTS_BPS
      be == IF funding > 0
            THEN BreakEvenCenti(snapshot.entry_basis_bps, funding)
            ELSE NoBreakEven
  IN IF funding <= 0 THEN Evaluated("skipped", "non-positive funding")
     ELSE IF be # NoBreakEven /\ be <= 4800 /\ net >= CARRY_MIN_NET_EDGE_BPS
          THEN IF spotPerpCarry(snapshot) = {}
               THEN Evaluated("skipped", "missing data")
               ELSE Evaluated("candidate", "")
     ELSE IF be # NoBreakEven /\ be <= 7200 THEN Evaluated("watchlist", "")
     ELSE Evaluated("skipped", "below threshold")

\* One run of detectCarry: the latest valid snapshot of the window, the
\* verdict, the idempotency query, the insert with ts = snapshot.ts.
detectCarry ==
  /\ Len(opportunities) < MaxOpps
  /\ InWindow # {}
  /\ IF ValidInWindow = {}
     THEN /\ loc' = [loc EXCEPT !["detect"].result =
                       Evaluated("skipped", "no valid snapshot")]
          /\ UNCHANGED opportunities
     ELSE LET snapshot == snapshots[LatestValid]
              verdict == CarryDecision(snapshot)
          IN IF verdict.status # "candidate"
             THEN /\ loc' = [loc EXCEPT !["detect"].result = verdict]
                  /\ UNCHANGED opportunities
             ELSE IF RecentOpportunity(snapshot.exchange, snapshot.symbol,
                                       "spot_perp_carry")
             THEN /\ loc' = [loc EXCEPT !["detect"].result =
                               Evaluated("skipped", "recent opportunity exists")]
                  /\ UNCHANGED opportunities
             ELSE /\ \E k \in spotPerpCarry(snapshot) :
                       opportunities' =
                         Append(opportunities, OppRow(k, snapshot.ts))
                  /\ loc' = [loc EXCEPT !["detect"].result =
                               Evaluated("inserted", "")]
  /\ UNCHANGED <<account, positions, executions, decisions, aiUsage, pc,
                 faults, runs, now, snapshots, tick, serial,
                 dailyPnl>>

\* One run of a live-quote detector: the quotes show an edge at or above
\* the minimum, or not (or cannot be fetched); then the idempotency query
\* and the insert with ts = now.
LiveDetect(k) ==
  /\ Len(opportunities) < MaxOpps
  /\ \E edge \in BOOLEAN :
       IF edge /\ ~RecentOpportunity(k.exchange, k.symbol, k.type)
       THEN opportunities' = Append(opportunities, OppRow(k, now))
       ELSE UNCHANGED opportunities
  /\ Forgotten
  /\ UNCHANGED <<account, positions, executions, decisions, aiUsage, pc,
                 faults, runs, now, snapshots, tick, serial,
                 dailyPnl>>

detectCrossExchangeSpot ==
  LiveDetect(CHOOSE k \in OppKinds : k.type = "xarb_spot")

detectTriangular ==
  LiveDetect(CHOOSE k \in OppKinds : k.type = "tri_arb")

\* ------------------------------------------- detectTriangular, path by path
COSTS_BPS_TRI == 4
MIN_NET_EDGE_BPS_TRI == 0 - 1

PATHS == <<"USDT->BTC->ETH->USDT", "USDT->BTC->SOL->USDT",
           "USDT->BTC->XRP->USDT", "USDT->BTC->ADA->USDT">>

\* What OKX answers to one ticker request: the request fails (HTTP status,
\* or the abort at TIMEOUT_MS), or a body arrives with its code, its data
\* rows and the prices of the first row, in hundredths.
Ticker(failure, code, rows, bidPx, askPx) ==
  [failure |-> failure, code |-> code, rows |-> rows, bidPx |-> bidPx,
   askPx |-> askPx]
TickerAnswers ==
  { Ticker("", "0", 1, 99, 100),
    Ticker("", "0", 1, 101, 102),
    Ticker("HTTP 500", "", 0, Missing, Missing),
    Ticker("This operation was aborted", "", 0, Missing, Missing),
    Ticker("", "51001", 0, Missing, Missing),
    Ticker("", "0", 1, 99, 0),
    Ticker("", "0", 1, 0 - 5, 100),
    Ticker("", "0", 1, 101, 100),
    Ticker("", "0", 1, 100, 100),
    Ticker("", "0", 1, 99, Missing) }

\* The answers to the three requests of one path: the books that show an
\* edge, the books that show none, one request or book gone wrong, and two
\* gone wrong at once.
GoodBook == Ticker("", "0", 1, 99, 100)
HighBook == Ticker("", "0", 1, 101, 102)
PathAnswers ==
  { <<GoodBook, GoodBook, HighBook>>, <<GoodBook, GoodBook, GoodBook>>,
    <<Ticker("HTTP 500", "", 0, Missing, Missing),
      Ticker("This operation was aborted", "", 0, Missing, Missing),
      HighBook>>,
    <<Ticker("HTTP 500", "", 0, Missing, Missing), GoodBook,
      Ticker("", "0", 1, 101, 100)>> }
  \cup { [<<GoodBook, GoodBook, HighBook>> EXCEPT ![i] = t] :
           i \in 1..3, t \in TickerAnswers \ {GoodBook, HighBook} }

\* A ticker the validation of the path's loop throws on.  toNumber gives
\* null for a price that is not a finite number (Missing).
InvalidPrices(ticker) ==
  LET ask == ticker.askPx
      bid == ticker.bidPx
  IN \/ ticker.code # "0" \/ ticker.rows = 0
     \/ ask = Missing \/ ask = 0 \/ bid = Missing \/ bid = 0
     \/ ask <= 0 \/ bid <= 0 \/ ask <= bid

\* The errors one path's try block can end with before its first repository
\* call: Promise.all rejects with whichever failed request settles first;
\* with every body at hand the first bad ticker throws "invalid prices".
PathErrors(tickers) ==
  LET failed == {i \in 1..3 : tickers[i].failure # ""}
  IN IF failed # {} THEN {tickers[i].failure : i \in failed}
     ELSE IF \E i \in 1..3 : InvalidPrices(tickers[i])
          THEN {"invalid prices"}
          ELSE {}

\* (amount - 1) * 10000 in whole bps, amount = 1 / ask1 / ask2 * bid3: every
\* path buys on its first two steps and sells on the third.
GrossEdgeBps(tickers) ==
  (tickers[3].bidPx * 1000000) \div (tickers[1].askPx * tickers[2].askPx)
    - 10000

TriEvaluated(path, gross, net, decision, reason) ==
  [path |-> path, gross_edge_bps |-> gross, net_edge_bps |-> net,
   decision |-> decision, reason |-> reason]

DetectResult(inserted, skipped, evaluated) ==
  [status |-> "ok", inserted |-> inserted, skipped |-> skipped,
   evaluated |-> evaluated]

\* select id from opportunities where exchange, symbol, type match and
\* ts >= idempotentSince, the bound the run computed when it started.
ExistingSince(exchange, symbol, type, since) ==
  \E i \in 1..Len(opportunities) :
    /\ opportunities[i].exchange = exchange
    /\ opportunities[i].symbol = symbol
    /\ opportunities[i].type = type
    /\ opportunities[i].ts >= since

TriKind == CHOOSE k \in OppKinds : k.type = "tri_arb"
XarbKind == CHOOSE k \in OppKinds : k.type = "xarb_spot"

\* The row detectTriangular inserts for a path.
TriRow(path, net) ==
  [OppRow(TriKind, now) EXCEPT !.symbol = path, !.net_edge_bps = net,
     !.confidence = IF net >= 20 THEN 64 ELSE IF net >= 12 THEN 60 ELSE 56]

\* The end of one path's iteration: its evaluated row, and the next path or
\* the return statement.
TriNext(p, l, row) ==
  Goto(p, IF l.idx < Len(PATHS) THEN "tri_fetch" ELSE "tri_return",
       [l EXCEPT !.evaluated = Append(@, row), !.idx = @ + 1,
                 !.created = IF row.decision = "inserted" THEN @ + 1 ELSE @,
                 !.skipped = IF row.decision = "skipped" THEN @ + 1 ELSE @])

\* The catch block of the path's iteration.
TriCatchRethrows(p, l, message) == Finish(p, ErrorResult(l))
TriCatch(p, l, message) ==
  TriNext(p, l, TriEvaluated(PATHS[l.idx], 0, 0, "skipped", message))

TriStart(p) ==
  /\ pc[p] = "idle"
  /\ CanStart
  /\ runs' = runs - 1
  /\ Start(p, "tri_fetch",
           [LocInit EXCEPT !.idx = 1, !.since = now - IDEMPOTENT_MINUTES])
  /\ UNCHANGED <<dbVars, faults, now, snapshots, tick, serial,
                 dailyPnl>>

\* The three ticker requests of the path, the walk along its steps and the
\* threshold.
TriFetch(p) ==
  /\ pc[p] = "tri_fetch"
  /\ \E tickers \in PathAnswers :
       LET l == [loc[p] EXCEPT !.tickers = tickers]
           gross == GrossEdgeBps(tickers)
           net == gross - COSTS_BPS_TRI
       IN IF PathErrors(tickers) # {}
          THEN \E message \in PathErrors(tickers) : TriCatch(p, l, message)
          ELSE IF net < MIN_NET_EDGE_BPS_TRI
          THEN TriNext(p, l, TriEvaluated(PATHS[l.idx], gross, net, "skipped",
                                          "below threshold"))
          ELSE Goto(p, "tri_existing", [l EXCEPT !.gross = gross])
  /\ UNCHANGED <<dbVars, faults, runs, now, snapshots, tick, serial,
                 dailyPnl>>

\* The idempotency query.
TriExisting(p) ==
  /\ pc[p] = "tri_existing"
  /\ LET l == loc[p]
         net == l.gross - COSTS_BPS_TRI
     IN \E r \in WriteOutcomes :
          /\ Charge(r)
          /\ IF r = "error" THEN TriCatch(p, l, "existingError")
             ELSE IF ExistingSince("okx", PATHS[l.idx], "tri_arb", l.since)
             THEN TriNext(p, l, TriEvaluated(PATHS[l.idx], l.gross, net,
                                             "skipped",
                                             "recent opportunity exists"))
             ELSE Goto(p, "tri_insert", l)
  /\ UNCHANGED <<dbVars, runs, now, snapshots, tick, serial,
                 dailyPnl>>

\* The insert, with ts = now.
TriInsert(p) ==
  /\ pc[p] = "tri_insert"
  /\ LET l == loc[p]
         net == l.gross - COSTS_BPS_TRI
     IN \E w \in WriteOutcomes :
          /\ Charge(w)
          /\ IF w = "error"
             THEN /\ TriCatch(p, l, "insertError")
                  /\ UNCHANGED opportunities
             ELSE /\ opportunities' =
                       Append(opportunities, TriRow(PATHS[l.idx], net))
                  /\ TriNext(p, l, TriEvaluated(PATHS[l.idx], l.gross, net,
                                                "inserted", ""))
  /\ UNCHANGED <<account, positions, executions, decisions, aiUsage, runs,
                 now, snapshots, tick, serial,
                 dailyPnl>>

TriReturn(p) ==
  /\ pc[p] = "tri_return"
  /\ Finish(p, DetectResult(loc[p].created, loc[p].skipped, loc[p].evaluated))
  /\ UNCHANGED <<dbVars, faults, runs, now, snapshots, tick, serial,
                 dailyPnl>>

detectTriangularPaths(p) ==
  \/ TriStart(p)
  \/ TriFetch(p)
  \/ TriExisting(p)
  \/ TriInsert(p)
  \/ TriReturn(p)

\* --------------------------------------------- detectCarry, symbol by symbol
\* The snapshots the run reads: ts >= since.
WindowRows(since) ==
  LET keep == [r \in {snapshots[i] : i \in 1..Len(snapshots)} |-> r.ts >= since]
  IN FilterSeq(snapshots, keep)

LatestTs(rows, symbol) ==
  LET ts == {rows[i].ts : i \in {j \in 1..Len(rows) : rows[j].symbol = symbol}}
  IN CHOOSE t \in ts : \A u \in ts : u <= t

\* symbolsInWindow in the order of the Set's insertions: the rows arrive by
\* ts descending, rows of one ts in any order.
SymbolOrders(rows) ==
  LET S == {rows[i].symbol : i \in 1..Len(rows)}
      n == Cardinality(S)
  IN {order \in [1..n -> S] :
        /\ \A i, j \in 1..n : i # j => order[i] # order[j]
        /\ \A i, j \in 1..n :
             i < j => LatestTs(rows, order[i]) >= LatestTs(rows, order[j])}

\* latestBySymbol: the newest valid row of the symbol, if any.
ValidRows(rows, symbol) ==
  {i \in 1..Len(rows) : rows[i].symbol = symbol /\ rows[i].valid}
LatestValidRow(rows, symbol) ==
  LET V == ValidRows(rows, symbol)
  IN rows[CHOOSE i \in V :
            \A j \in V : rows[j].ts < rows[i].ts
                         \/ (rows[j].ts = rows[i].ts /\ j <= i)]

CarryEvaluated(symbol, verdict) ==
  [symbol |-> symbol, decision |-> verdict.status, reason |-> verdict.reason]

\* The end of one symbol's iteration.
CarryNext(p, l, verdict) ==
  Goto(p, IF Len(l.todo) > 1 THEN "carry_symbol" ELSE "carry_return",
       [l EXCEPT !.evaluated = Append(@, CarryEvaluated(Head(l.todo), verdict)),
                 !.todo = Tail(@),
                 !.created = IF verdict.status = "inserted" THEN @ + 1 ELSE @,
                 !.skipped = IF verdict.status = "skipped" THEN @ + 1 ELSE @])

\* The market_snapshots query; a failed query throws.
CarryRead(p) ==
  /\ pc[p] = "idle"
  /\ CanStart
  /\ runs' = runs - 1
  /\ \E r \in WriteOutcomes :
       /\ Charge(r)
       /\ IF r = "error" THEN Reply(p, ErrorResult(LocInit))
          ELSE LET rows == WindowRows(now - LOOKBACK_MINUTES)
               IN \E order \in SymbolOrders(rows) :
                    Start(p, IF Len(order) = 0 THEN "carry_return"
                             ELSE "carry_symbol",
                          [LocInit EXCEPT !.since = now - IDEMPOTENT_MINUTES,
                                          !.rows = rows, !.todo = order])
  /\ UNCHANGED <<dbVars, now, snapshots, tick, serial,
                 dailyPnl>>

\* The verdict on the next symbol.
CarrySymbol(p) ==
  /\ pc[p] = "carry_symbol"
  /\ LET l == loc[p]
         symbol == Head(l.todo)
     IN IF ValidRows(l.rows, symbol) = {}
        THEN CarryNext(p, l, Evaluated("skipped", "no valid snapshot"))
        ELSE LET verdict == CarryDecision(LatestValidRow(l.rows, symbol))
             IN IF verdict.status # "candidate" THEN CarryNext(p, l, verdict)
                ELSE Goto(p, "carry_existing", l)
  /\ UNCHANGED <<dbVars, faults, runs, now, snapshots, tick, serial,
                 dailyPnl>>

\* The idempotency query; a failed query throws out of the loop.
CarryExisting(p) ==
  /\ pc[p] = "carry_existing"
  /\ LET l == loc[p]
         snapshot == LatestValidRow(l.rows, Head(l.todo))
     IN \E r \in WriteOutcomes :
          /\ Charge(r)
          /\ IF r = "error" THEN Finish(p, ErrorResult(l))
             ELSE IF ExistingSince(snapshot.exchange, snapshot.symbol,
                                   "spot_perp_carry", l.since)
             THEN CarryNext(p, l, Evaluated("skipped",
                                            "recent opportunity exists"))
             ELSE Goto(p, "carry_insert", l)
  /\ UNCHANGED <<dbVars, runs, now, snapshots, tick, serial,
                 dailyPnl>>

\* The insert with ts = snapshot.ts; a failed insert throws out of the loop.
CarryInsert(p) ==
  /\ pc[p] = "carry_insert"
  /\ LET l == loc[p]
         snapshot == LatestValidRow(l.rows, Head(l.todo))
     IN \E w \in WriteOutcomes :
          /\ Charge(w)
          /\ IF w = "error"
             THEN /\ Finish(p, ErrorResult(l))
                  /\ UNCHANGED opportunities
             ELSE /\ \E k \in spotPerpCarry(snapshot) :
                       opportunities' =
                         Append(opportunities, OppRow(k, snapshot.ts))
                  /\ CarryNext(p, l, Evaluated("inserted", ""))
  /\ UNCHANGED <<account, positions, executions, decisions, aiUsage, runs,
                 now, snapshots, tick, serial,
                 dailyPnl>>

CarryReturn(p) ==
  /\ pc[p] = "carry_return"
  /\ Finish(p, DetectResult(loc[p].created, loc[p].skipped, loc[p].evaluated))
  /\ UNCHANGED <<dbVars, faults, runs, now, snapshots, tick, serial,
                 dailyPnl>>

detectCarrySymbols(p) ==
  \/ CarryRead(p)
  \/ CarrySymbol(p)
  \/ CarryExisting(p)
  \/ CarryInsert(p)
  \/ CarryReturn(p)

\* ------------------------------- detectCrossExchangeSpot, symbol by symbol
COSTS_BPS_DETECT_XARB == 6 + 4 + 8
MIN_NET_EDGE_BPS_XARB == 3

\* The canonical symbols of CANONICAL_MAP; the model walks the first
\* MaxMappings of them.
CANONICAL_MAP ==
  <<"BTCUSD", "ETHUSD", "SOLUSD", "XRPUSD", "BNBUSD", "ADAUSD", "DOGEUSD",
    "AVAXUSD", "LINKUSD", "LTCUSD", "DOTUSD", "BCHUSD", "TRXUSD">>
Mappings == SubSeq(CANONICAL_MAP, 1, MaxMappings)

\* The latest snapshot of a venue: none, or its spot bid and ask.
NoBook == [present |-> FALSE, bid |-> Missing, ask |-> Missing]
Book(bid, ask) == [present |-> TRUE, bid |-> bid, ask |-> ask]

\* What the three snapshot queries of one mapping return (bybit, okx,
\* kraken): nothing; one valid book; the best ask and the best bid on one
\* venue; an edge below the minimum; an edge between bybit and okx; an edge
\* between bybit and kraken; a null and a crossed book beside a valid one.
VenueBooks ==
  { <<NoBook, NoBook, NoBook>>,
    <<Book(9990, 10000), NoBook, NoBook>>,
    <<Book(10000, 10001), Book(9990, 10010), NoBook>>,
    <<Book(9999, 10001), Book(9998, 10000), NoBook>>,
    <<Book(9990, 10000), Book(10030, 10040), NoBook>>,
    <<Book(9990, 10000), NoBook, Book(10030, 10040)>>,
    <<Book(9990, 10000), Book(Missing, 10040), Book(10050, 10040)>> }

Venues == <<"bybit", "okx", "kraken">>

ValidQuotes(books) ==
  {v \in 1..3 : /\ books[v].present
                /\ books[v].ask # Missing /\ books[v].bid # Missing
                /\ books[v].ask > 0 /\ books[v].bid > 0
                /\ books[v].ask > books[v].bid}

\* reduce keeps the first of equal asks (bids).
BuyVenue(books) ==
  CHOOSE v \in ValidQuotes(books) :
    \A u \in ValidQuotes(books) :
      books[v].ask < books[u].ask \/ (books[v].ask = books[u].ask /\ v <= u)
SellVenue(books) ==
  CHOOSE v \in ValidQuotes(books) :
    \A u \in ValidQuotes(books) :
      books[v].bid > books[u].bid \/ (books[v].bid = books[u].bid /\ v <= u)

\* [buy.exchange, sell.exchange].sort().join("_")
ExchangeKey(buy, sell) ==
  Venues[Min2(buy, sell)] \o "_" \o Venues[Max2(buy, sell)]

\* ((sell.bid - buy.ask) / buy.ask) * 10000 in whole bps.
XarbGrossEdgeBps(books) ==
  ((books[SellVenue(books)].bid - books[BuyVenue(books)].ask) * 10000)
    \div books[BuyVenue(books)].ask

XarbEvaluated(symbol, decision, reason) ==
  [symbol |-> symbol, decision |-> decision, reason |-> reason]

\* The row detectCrossExchangeSpot inserts.
XarbRow(symbol, key, net) ==
  [OppRow(XarbKind, now) EXCEPT !.symbol = symbol, !.exchange = key,
                                !.net_edge_bps = net]

\* The end of one mapping's iteration.
XarbNext(p, l, decision, reason) ==
  Goto(p, IF l.idx < Len(Mappings) THEN "xarb_read" ELSE "xarb_return",
       [l EXCEPT !.evaluated =
                   Append(@, XarbEvaluated(Mappings[l.idx], decision, reason)),
                 !.idx = @ + 1,
                 !.created = IF decision = "inserted" THEN @ + 1 ELSE @,
                 !.skipped = IF decision = "skipped" THEN @ + 1 ELSE @])

XarbStart(p) ==
  /\ pc[p] = "idle"
  /\ CanStart
  /\ runs' = runs - 1
  /\ Start(p, "xarb_read",
           [LocInit EXCEPT !.idx = 1, !.since = now - IDEMPOTENT_MINUTES])
  /\ UNCHANGED <<dbVars, faults, now, snapshots, tick, serial,
                 dailyPnl>>

\* The snapshot queries of the mapping (a failed one throws out of the
\* loop), the valid quotes, the venues to buy and to sell on, the threshold.
XarbRead(p) ==
  /\ pc[p] = "xarb_read"
  /\ LET l == loc[p]
     IN \E r \in WriteOutcomes, books \in VenueBooks :
          /\ Charge(r)
          /\ IF r = "error" THEN Finish(p, ErrorResult(l))
             ELSE IF \A v \in 1..3 : ~books[v].present
             THEN XarbNext(p, l, "skipped", "missing snapshots")
             ELSE IF Cardinality(ValidQuotes(books)) < 2
             THEN XarbNext(p, l, "skipped", "invalid quotes")
             ELSE IF BuyVenue(books) = SellVenue(books)
             THEN XarbNext(p, l, "skipped", "no cross-exchange edge")
             ELSE IF XarbGrossEdgeBps(books) - COSTS_BPS_DETECT_XARB
                       < MIN_NET_EDGE_BPS_XARB
             THEN XarbNext(p, l, "skipped", "below threshold")
             ELSE Goto(p, "xarb_existing",
                       [l EXCEPT !.gross = XarbGrossEdgeBps(books),
                                 !.key = ExchangeKey(BuyVenue(books),
                                                     SellVenue(books))])
  /\ UNCHANGED <<dbVars, runs, now, snapshots, tick, serial,
                 dailyPnl>>

\* The idempotency query; a failed query throws out of the loop.
XarbExisting(p) ==
  /\ pc[p] = "xarb_existing"
  /\ LET l == loc[p]
     IN \E r \in WriteOutcomes :
          /\ Charge(r)
          /\ IF r = "error" THEN Finish(p, ErrorResult(l))
             ELSE IF ExistingSince(l.key, Mappings[l.idx], "xarb_spot", l.since)
             THEN XarbNext(p, l, "skipped", "recent opportunity exists")
             ELSE Goto(p, "xarb_insert", l)
  /\ UNCHANGED <<dbVars, runs, now, snapshots, tick, serial,
                 dailyPnl>>

\* The insert with ts = now; a failed insert throws out of the loop.
XarbInsert(p) ==
  /\ pc[p] = "xarb_insert"
  /\ LET l == loc[p]
     IN \E w \in WriteOutcomes :
          /\ Charge(w)
          /\ IF w = "error"
             THEN /\ Finish(p, ErrorResult(l))
                  /\ UNCHANGED opportunities
             ELSE /\ opportunities' =
                       Append(opportunities,
                              XarbRow(Mappings[l.idx], l.key,
                                      l.gross - COSTS_BPS_DETECT_XARB))
                  /\ XarbNext(p, l, "inserted", "")
  /\ UNCHANGED <<account, positions, executions, decisions, aiUsage, runs,
                 now, snapshots, tick, serial,
                 dailyPnl>>

XarbReturn(p) ==
  /\ pc[p] = "xarb_return"
  /\ Finish(p, DetectResult(loc[p].created, loc[p].skipped, loc[p].evaluated))
  /\ UNCHANGED <<dbVars, faults, runs, now, snapshots, tick, serial,
                 dailyPnl>>

detectCrossExchangeSymbols(p) ==
  \/ XarbStart(p)
  \/ XarbRead(p)
  \/ XarbExisting(p)
  \/ XarbInsert(p)
  \/ XarbReturn(p)

\* ---------------------------------------------------------- computeDailyPnl
STRATEGY_MAP(type) ==
  IF type = "spot_perp_carry" THEN "carry_spot_perp" ELSE type

\* toISOString().slice(0, 10) of a time in minutes.
Day(ts) == ts \div 1440

\* A market_snapshots row with its prices (null: Missing).
PricedSnapshot(exchange, symbol, spot_bid, spot_ask, perp_bid, perp_ask) ==
  [ts |-> 0, exchange |-> exchange, symbol |-> symbol, spot_bid |-> spot_bid,
   spot_ask |-> spot_ask, perp_bid |-> perp_bid, perp_ask |-> perp_ask]

\* The venues and symbols autoExecutePaper writes to a cross-exchange
\* position's meta.
XarbMeta ==
  [buy_exchange |-> "bybit", buy_symbol |-> "BTCUSDT",
   sell_exchange |-> "okx", sell_symbol |-> "BTCUSDT"]

\* Twice the mid of the pair's latest snapshot (order by ts desc limit 1),
\* or Missing: no snapshot, or a bid or ask that is not a number.
TwiceMid(exchange, symbol, bid, ask) ==
  LET S == {i \in 1..Len(snapshots) : /\ snapshots[i].exchange = exchange
                                      /\ snapshots[i].symbol = symbol}
      latest == CHOOSE i \in S :
                  \A j \in S : snapshots[j].ts < snapshots[i].ts
                               \/ (snapshots[j].ts = snapshots[i].ts /\ j <= i)
  IN IF S = {} THEN Missing
     ELSE IF snapshots[latest][bid] = Missing
             \/ snapshots[latest][ask] = Missing THEN Missing
     ELSE snapshots[latest][bid] + snapshots[latest][ask]

\* feeMap: the fees of the position's executions; paperFill charges each leg
\* of an entry or exit, the legs of a triangle carry no fee.
ExecutionFees(i) ==
  LET legFee == IF positions[i].type = "tri_arb" /\ positions[i].auto THEN 0
                ELSE FeeUsd(positions[i].notional_usd)
      fees(e) == IF e \in executions THEN Len(e.legs) * legFee ELSE 0
  IN fees(EntryExecutions(i)) + fees(ExitExecutions(i))

NoContribution == [counts |-> FALSE, pnl |-> 0]
Contribution(pnl) == [counts |-> TRUE, pnl |-> pnl]

\* total_pnl of a position, or none where the loop continues.
PositionPnl(i) ==
  LET position == positions[i]
      opp == opportunities[position.opportunity_id]
      n == position.notional_usd
  IN IF /\ position.status = "closed" /\ position.exit_ts # Missing
        /\ Day(position.exit_ts) = Day(now)
     THEN Contribution(IF position.realized_pnl_usd = NoPnl THEN 0
                       ELSE position.realized_pnl_usd[1])
     ELSE IF position.status = "open" /\ opp.type = "spot_perp_carry"
     THEN LET spot == TwiceMid(opp.exchange, opp.symbol, "spot_bid", "spot_ask")
              perp == TwiceMid(opp.exchange, opp.symbol, "perp_bid", "perp_ask")
              e == EntryFills("spot_perp_carry")
          IN IF spot = Missing \/ perp = Missing \/ spot = 0 \/ perp = 0
             THEN NoContribution
             ELSE Contribution((n * (spot - 2 * e.a)) \div (2 * e.a)
                                 - (n * (perp - 2 * e.b)) \div (2 * e.b)
                                 - ExecutionFees(i))
     ELSE IF position.status = "open" /\ opp.type = "xarb_spot"
     THEN LET buy == TwiceMid(XarbMeta.buy_exchange, XarbMeta.buy_symbol,
                              "spot_bid", "spot_ask")
              sell == TwiceMid(XarbMeta.sell_exchange, XarbMeta.sell_symbol,
                               "spot_bid", "spot_ask")
              e == EntryFills("xarb_spot")
          IN IF buy = Missing \/ sell = Missing \/ buy = 0 \/ sell = 0
             THEN NoContribution
             ELSE Contribution((n * (buy - 2 * e.a)) \div (2 * e.a)
                                 + (n * (2 * e.b - sell)) \div (2 * e.b)
                                 - ExecutionFees(i))
     ELSE NoContribution

PnlKey(i) ==
  LET opp == opportunities[positions[i].opportunity_id]
  IN <<STRATEGY_MAP(opp.type), opp.exchange>>

\* pnlAgg: the keys in the order of their first position, and their sums.
RECURSIVE PnlKeys(_)
PnlKeys(n) ==
  IF n = 0 THEN <<>>
  ELSE LET before == PnlKeys(n - 1)
       IN IF PositionPnl(n).counts
             /\ \A k \in 1..Len(before) : before[k] # PnlKey(n)
          THEN Append(before, PnlKey(n)) ELSE before

RECURSIVE PnlSum(_, _)
PnlSum(key, n) ==
  IF n = 0 THEN 0
  ELSE PnlSum(key, n - 1)
         + (IF PositionPnl(n).counts /\ PnlKey(n) = key
            THEN PositionPnl(n).pnl ELSE 0)

DailyRow(key) ==
  [day |-> Day(now), strategy_key |-> key[1], exchange_key |-> key[2],
   pnl_usd |-> ToFixed2(PnlSum(key, Len(positions)))]

DailyRows ==
  [k \in 1..Len(PnlKeys(Len(positions))) |->
     DailyRow(PnlKeys(Len(positions))[k])]

SameDailyKey(a, b) ==
  /\ a.day = b.day
  /\ a.strategy_key = b.strategy_key
  /\ a.exchange_key = b.exchange_key

\* upsert on conflict (day, strategy_key, exchange_key).
UpsertAdding(table, row) ==
  IF \E i \in 1..Len(table) : SameDailyKey(table[i], row)
  THEN [i \in 1..Len(table) |->
          IF SameDailyKey(table[i], row)
          THEN [table[i] EXCEPT !.pnl_usd = @ + row.pnl_usd] ELSE table[i]]
  ELSE Append(table, row)
Upsert(table, row) ==
  IF \E i \in 1..Len(table) : SameDailyKey(table[i], row)
  THEN [i \in 1..Len(table) |->
          IF SameDailyKey(table[i], row) THEN row ELSE table[i]]
  ELSE Append(table, row)

PnlResult(rows) == [status |-> "ok", rows |-> rows]

\* The reads of positions, opportunities, executions and snapshots (a failed
\* read of the first three throws) and the aggregation.
PnlRead(p) ==
  /\ pc[p] = "idle"
  /\ CanStart
  /\ runs' = runs - 1
  /\ \E r \in WriteOutcomes :
       /\ Charge(r)
       /\ IF r = "error" THEN Reply(p, ErrorResult(LocInit))
          ELSE Start(p, IF Len(DailyRows) = 0 THEN "pnl_return"
                        ELSE "pnl_upsert",
                     [LocInit EXCEPT !.todo = DailyRows])
  /\ UNCHANGED <<dbVars, now, snapshots, tick, serial, dailyPnl>>

\* The upsert of the next row.  An error whose text names the table is
\* passed over, any other error is thrown.
PnlUpsert(p) ==
  /\ pc[p] = "pnl_upsert"
  /\ LET l == loc[p]
         next == [l EXCEPT !.todo = Tail(@),
                           !.evaluated = Append(@, Head(l.todo))]
         label == IF Len(l.todo) > 1 THEN "pnl_upsert" ELSE "pnl_return"
     IN \E w \in WriteOutcomes, named \in BOOLEAN :
          /\ Charge(w)
          /\ IF w = "ok"
             THEN /\ ~named
                  /\ dailyPnl' = Upsert(dailyPnl, Head(l.todo))
                  /\ Goto(p, label, next)
             ELSE /\ UNCHANGED dailyPnl
                  /\ IF named THEN Goto(p, label, next)
                     ELSE Finish(p, ErrorResult(l))
  /\ UNCHANGED <<dbVars, runs, now, snapshots, tick, serial>>

PnlReturn(p) ==
  /\ pc[p] = "pnl_return"
  /\ Finish(p, PnlResult(loc[p].evaluated))
  /\ UNCHANGED <<dbVars, faults, runs, now, snapshots, tick, serial, dailyPnl>>

computeDailyPnl(p) ==
  \/ PnlRead(p)
  \/ PnlUpsert(p)
  \/ PnlReturn(p)

\* ------------------------------------------------- cron tick (handleTick)
\* The jobs in the order handleTick awaits them.
Jobs == <<"ingest_binance", "ingest_kraken", "detect_carry", "detect_xarb",
          "detect_tri", "auto_execute", "auto_close", "compute_pnl",
          "auto_expectancy">>
IngestJobs == {"ingest_binance", "ingest_kraken"}
JobNames == {Jobs[i] : i \in 1..Len(Jobs)}

\* tick.stage: 0 no request in progress, i in 1..Len(Jobs) about to run job
\* i, then collecting the errors, inserting the system_ticks row, responding.
StageCollect == Len(Jobs) + 1
StageRecord == Len(Jobs) + 2
StageRespond == Len(Jobs) + 3

NoTick ==
  [stage |-> 0, served |-> 0, results |-> [j \in JobNames |-> "none"],
   ingest_errors |-> {}, job_errors |-> {}, rows |-> 0,
   response |-> "none", partial_failures |-> FALSE]

\* runJob: the job's value, or its exception caught and turned into a
\* failure result.
runJobUncaught(outcome) == IF outcome = "throw" THEN "raised" ELSE "ok"
runJob(outcome) == IF outcome = "throw" THEN "failed" ELSE "ok"

\* A request arrives; without the cron secret (and not from the cron
\* user agent) it is answered 401.
TickRequest ==
  /\ tick.stage = 0 /\ tick.served < MaxTickRequests
  /\ \E authorized \in BOOLEAN :
       tick' = IF authorized
               THEN [NoTick EXCEPT !.stage = 1, !.served = tick.served + 1,
                                   !.rows = tick.rows]
               ELSE [NoTick EXCEPT !.served = tick.served + 1,
                                   !.rows = tick.rows,
                                   !.response = "unauthorized"]
  /\ UNCHANGED <<dbVars, pc, loc, faults, runs, now, snapshots, serial,
                 dailyPnl>>

\* await runJob(job): the job returns or throws.  A rejected await would
\* leave handleTick with the exception.
TickRunJob ==
  /\ tick.stage \in 1..Len(Jobs)
  /\ \E outcome \in {"return", "throw"} :
       LET r == runJob(outcome)
       IN tick' = IF r = "raised"
                  THEN [tick EXCEPT !.stage = 0, !.response = "exception"]
                  ELSE [tick EXCEPT !.stage = @ + 1,
                                    !.results[Jobs[tick.stage]] = r]
  /\ UNCHANGED <<dbVars, pc, loc, faults, runs, now, snapshots, serial,
                 dailyPnl>>

\* ingestErrors takes the failures of the two ingest jobs, jobErrors those
\* of the other seven.
TickCollect ==
  /\ tick.stage = StageCollect
  /\ tick' = [tick EXCEPT
        !.stage = StageRecord,
        !.ingest_errors = {j \in IngestJobs : tick.results[j] = "failed"},
        !.job_errors = {j \in JobNames \ IngestJobs :
                          tick.results[j] = "failed"}]
  /\ UNCHANGED <<dbVars, pc, loc, faults, runs, now, snapshots, serial,
                 dailyPnl>>

\* Insert the system_ticks row; the insert's result is not looked at.
TickRecord ==
  /\ tick.stage = StageRecord
  /\ \E w \in {"ok", "error"} :
       tick' = [tick EXCEPT !.stage = StageRespond,
                            !.rows = IF w = "ok" THEN 1 ELSE @]
  /\ UNCHANGED <<dbVars, pc, loc, faults, runs, now, snapshots, serial,
                 dailyPnl>>

\* The JSON response: partial_failures = jobErrors.length > 0.
TickRespond ==
  /\ tick.stage = StageRespond
  /\ tick' = [tick EXCEPT !.stage = 0, !.response = "structured",
                          !.partial_failures = (tick.job_errors # {})]
  /\ UNCHANGED <<dbVars, pc, loc, faults, runs, now, snapshots, serial,
                 dailyPnl>>

handleTick ==
  TickRequest \/ TickRunJob \/ TickCollect \/ TickRecord \/ TickRespond

\* ---------------------------------------------------------- specifications

InitDb ==
  /\ account = NoAccount
  /\ opportunities = <<>>
  /\ positions = <<>>
  /\ executions = {}
  /\ decisions = <<>>
  /\ aiUsage = 0
  /\ pc = [p \in Procs |-> "idle"]
  /\ loc = [p \in Procs |-> LocInit]
  /\ now = 0
  /\ snapshots = <<>>
  /\ tick = NoTick
  /\ dailyPnl = <<>>

\* Handlers invoked one at a time.
Init ==
  /\ InitDb
  /\ serial = TRUE
  /\ faults = MaxFaults
  /\ runs = MaxRuns

Next ==
  \/ autoExecutePaper("tick1")
  \/ manualExecute("manual")
  \/ autoClosePaper("close")
  \/ manualClose("mclose")
  \/ paperSettings("settings")
  \/ InsertOpportunity
  \/ AdvanceClock

Spec == Init /\ [][Next]_vars

\* Handlers invoked concurrently: the cron tick, the manual requests and a
\* second tick overlap step by step.
\* They start from the state one tick leaves behind (a carry opportunity
\* detected, its position opened by autoExecutePaper with one re-rank call,
\* five minutes gone): a state Spec reaches.
CarryOpp == CHOOSE k \in OppKinds : k.type = "spot_perp_carry"

InitRace ==
  /\ now = 0
  /\ opportunities = <<OppRow(CarryOpp, 0)>>
  /\ account = [DefaultAccount EXCEPT !.reserved_usd =
        deriveNotional(CarryOpp, Mills(DEFAULT_MIN_NOTIONAL),
                       Mills(DEFAULT_MAX_NOTIONAL))]
  /\ positions = <<[NewPosition(1, account.reserved_usd, TRUE)
                      EXCEPT !.age = 1]>>
  /\ executions = {EntryExecutions(1)}
  /\ decisions = <<[opportunity_id |-> 1, variant |-> variantForOpportunity(1),
                    chosen |-> TRUE, position_id |-> 1]>>
  /\ aiUsage = 1
  /\ pc = [p \in Procs |-> "idle"]
  /\ loc = [p \in Procs |-> LocInit]
  /\ snapshots = <<>>
  /\ tick = NoTick
  /\ dailyPnl = <<>>
  /\ serial = FALSE
  /\ faults = 0
  /\ runs = MaxRaceRuns

NextRace ==
  \/ \E p \in Ticks : autoExecutePaper(p)
  \/ manualExecute("manual")
  \/ autoClosePaper("close")
  \/ manualClose("mclose")
  \/ paperSettings("settings")
  \/ InsertOpportunity
  \/ AdvanceClock

SpecRace == InitRace /\ [][NextRace]_vars

\* The admission gates of autoExecutePaper.  The runs start from an account
\* whose positions were opened by manual executes of one carry opportunity,
\* each more than IDEMPOTENT_MINUTES after the one before: one position short
\* of MAX_OPEN_POSITIONS, all older than an hour, or one short of
\* MAX_NEW_PER_HOUR, all entered within the hour.
GateSeeds == {[n |-> MAX_OPEN_POSITIONS - 1, age |-> 2],
              [n |-> MAX_NEW_PER_HOUR - 1, age |-> 1]}

InitGate ==
  \E seed \in GateSeeds :
    LET notional == deriveNotional(CarryOpp, Mills(DEFAULT_MIN_NOTIONAL),
                                   Mills(DEFAULT_MAX_NOTIONAL))
    IN /\ now = 0
       /\ opportunities = <<OppRow(CarryOpp, 0)>>
       /\ account = [DefaultAccount EXCEPT !.reserved_usd = seed.n * notional]
       /\ positions = [i \in 1..seed.n |->
                         [NewPosition(1, notional, FALSE)
                            EXCEPT !.age = seed.age]]
       /\ executions = {EntryExecutions(i) : i \in 1..seed.n}
       /\ decisions = <<>>
       /\ aiUsage = 0
       /\ pc = [p \in Procs |-> "idle"]
       /\ loc = [p \in Procs |-> LocInit]
       /\ snapshots = <<>>
       /\ tick = NoTick
       /\ dailyPnl = <<>>
       /\ serial = TRUE
       /\ faults = 0
       /\ runs = MaxGateRuns

NextGate ==
  \/ autoExecutePaper("tick1")
  \/ manualExecute("manual")
  \/ InsertOpportunity
  \/ AdvanceClock

SpecGate == InitGate /\ [][NextGate]_vars

\* autoClosePaper against the positions earlier runs have left open: the
\* carry opportunity (1) and the cross-exchange one (2), opened by
\* autoExecutePaper at the derived notional, or the carry opened by a manual
\* request of 300; reserved_usd holds their notionals, or nothing where the
\* reserve writes had failed.
XarbOpp == CHOOSE k \in OppKinds : k.type = "xarb_spot"

CloseSeeds ==
  [open : {<<1>>, <<2>>, <<1, 2>>}, manual : BOOLEAN, reserved : BOOLEAN]

InitClose ==
  \E seed \in CloseSeeds :
    LET kind(o) == IF o = 1 THEN CarryOpp ELSE XarbOpp
        notional(o) ==
          IF seed.manual THEN clampNotional(Mills(300),
                                            Mills(DEFAULT_MIN_NOTIONAL),
                                            Mills(DEFAULT_MAX_NOTIONAL))
          ELSE deriveNotional(kind(o), Mills(DEFAULT_MIN_NOTIONAL),
                              Mills(DEFAULT_MAX_NOTIONAL))
        n == Len(seed.open)
    IN /\ now = 0
       /\ seed.manual => seed.open = <<1>>
       /\ opportunities = <<OppRow(CarryOpp, 0), OppRow(XarbOpp, 0)>>
       /\ positions = [i \in 1..n |->
                         [NewPosition(seed.open[i], notional(seed.open[i]),
                                      ~seed.manual) EXCEPT !.age = 1]]
       /\ account = [DefaultAccount EXCEPT !.reserved_usd =
                       IF seed.reserved THEN SumNotional(1..n) ELSE 0]
       /\ executions = {EntryExecutions(i) : i \in 1..n}
       /\ decisions = IF seed.manual THEN <<>>
                      ELSE [i \in 1..n |->
                              [opportunity_id |-> seed.open[i],
                               variant |-> variantForOpportunity(seed.open[i]),
                               chosen |-> TRUE, position_id |-> i]]
       /\ aiUsage = 0
       /\ pc = [p \in Procs |-> "idle"]
       /\ loc = [p \in Procs |-> LocInit]
       /\ snapshots = <<>>
       /\ tick = NoTick
       /\ dailyPnl = <<>>
       /\ serial = TRUE
       /\ faults = 0
       /\ runs = MaxCloseRuns

NextClose ==
  \/ autoClosePaper("close")
  \/ AdvanceClock

SpecClose == InitClose /\ [][NextClose]_vars

\* Ticks late in a day of re-ranker use: five opportunities in the table,
\* the day's usage at or near the daily cap and, in the trained seeds,
\* MIN_SAMPLES decisions of earlier ticks that executed opportunity 1 (a
\* triangle, closed at once) before the other opportunities arrived.
LlmSeeds ==
  [kinds : [1..MaxLlmOpps -> OppKinds],
   usage : {0, MAX_LLM_CALLS_PER_DAY - 2, MAX_LLM_CALLS_PER_DAY - 1,
            MAX_LLM_CALLS_PER_DAY},
   trained : BOOLEAN]

InitLlm ==
  \E seed \in LlmSeeds :
    LET n == IF seed.trained THEN MIN_SAMPLES ELSE 0
        notional == deriveNotional(seed.kinds[1], Mills(DEFAULT_MIN_NOTIONAL),
                                   Mills(DEFAULT_MAX_NOTIONAL))
    IN /\ now = 0
       /\ seed.trained => seed.kinds[1].type = "tri_arb"
       /\ opportunities = [i \in 1..MaxLlmOpps |-> OppRow(seed.kinds[i], 0)]
       /\ account = DefaultAccount
       /\ positions = [i \in 1..n |->
                         [NewPosition(1, notional, TRUE) EXCEPT !.age = 2]]
       /\ executions = {EntryExecutions(i) : i \in 1..n}
       /\ decisions = [i \in 1..n |->
                         [opportunity_id |-> 1,
                          variant |-> variantForOpportunity(1),
                          chosen |-> TRUE, position_id |-> i]]
       /\ aiUsage = seed.usage
       /\ pc = [p \in Procs |-> "idle"]
       /\ loc = [p \in Procs |-> LocInit]
       /\ snapshots = <<>>
       /\ tick = NoTick
       /\ dailyPnl = <<>>
       /\ serial = TRUE
       /\ faults = 0
       /\ runs = MaxLlmRuns

NextLlm ==
  \/ autoExecutePaper("tick1")
  \/ AdvanceClock

SpecLlm == InitLlm /\ [][NextLlm]_vars

\* The detectors run one after another while time passes and snapshots
\* arrive.
InitDetect ==
  /\ InitDb
  /\ serial = TRUE
  /\ faults = 0
  /\ runs = 0

NextDetect ==
  \/ IngestSnapshot
  \/ AdvanceTime
  \/ detectCarry
  \/ detectCrossExchangeSpot
  \/ detectTriangular

SpecDetect == InitDetect /\ [][NextDetect]_vars

\* One run of detectTriangular while repository calls may fail; an earlier
\* run may have inserted the first path's opportunity.
InitTri ==
  /\ now = 0
  /\ account = NoAccount
  /\ opportunities \in {<<>>, <<TriRow(PATHS[1], 96)>>}
  /\ positions = <<>>
  /\ executions = {}
  /\ decisions = <<>>
  /\ aiUsage = 0
  /\ pc = [p \in Procs |-> "idle"]
  /\ loc = [p \in Procs |-> LocInit]
  /\ snapshots = <<>>
  /\ tick = NoTick
  /\ dailyPnl = <<>>
  /\ serial = TRUE
  /\ faults = MaxTriFaults
  /\ runs = MaxTriRuns

NextTri == detectTriangularPaths("tri")

SpecTri == InitTri /\ [][NextTri]_vars

\* detectCarry and detectCrossExchangeSpot run one after another over two
\* symbols each while repository calls may fail; ingestBinance has stored a
\* snapshot of each carry symbol.
SnapshotRow(symbol, k) ==
  [ts |-> 0, exchange |-> "binance", symbol |-> symbol, valid |-> k.valid,
   funding_daily_bps |-> k.funding_daily_bps,
   entry_basis_bps |-> k.entry_basis_bps, basis_bps |-> k.basis_bps]

InitSymbols ==
  /\ now = 0
  /\ account = NoAccount
  /\ opportunities = <<>>
  /\ positions = <<>>
  /\ executions = {}
  /\ decisions = <<>>
  /\ aiUsage = 0
  /\ pc = [p \in Procs |-> "idle"]
  /\ loc = [p \in Procs |-> LocInit]
  /\ \E k1, k2 \in SnapshotKinds :
       snapshots = <<SnapshotRow("BTCUSDT", k1), SnapshotRow("ETHUSDT", k2)>>
  /\ tick = NoTick
  /\ dailyPnl = <<>>
  /\ serial = TRUE
  /\ faults = MaxSymbolFaults
  /\ runs = MaxSymbolRuns

NextSymbols ==
  \/ detectCarrySymbols("cdetect")
  \/ detectCrossExchangeSymbols("xdetect")

SpecSymbols == InitSymbols /\ [][NextSymbols]_vars

\* A tick's detectCarry and the detectCarry of the manual POST run at the
\* same time over the same snapshots.
InitCarryRace ==
  /\ now = 0
  /\ account = NoAccount
  /\ opportunities = <<>>
  /\ positions = <<>>
  /\ executions = {}
  /\ decisions = <<>>
  /\ aiUsage = 0
  /\ pc = [p \in Procs |-> "idle"]
  /\ loc = [p \in Procs |-> LocInit]
  /\ \E k1, k2 \in SnapshotKinds :
       snapshots = <<SnapshotRow("BTCUSDT", k1), SnapshotRow("ETHUSDT", k2)>>
  /\ tick = NoTick
  /\ dailyPnl = <<>>
  /\ serial = FALSE
  /\ faults = 0
  /\ runs = MaxCarryRaceRuns

NextCarryRace ==
  \/ detectCarrySymbols("cdetect")
  \/ detectCarrySymbols("mdetect")

SpecCarryRace == InitCarryRace /\ [][NextCarryRace]_vars

\* computeDailyPnl runs twice over a book that does not change: an open
\* carry, an open cross-exchange position, a carry closed today, a triangle
\* closed at once and a carry closed on an earlier day, each there or not,
\* and the latest snapshots of the two venues.
PnlMarks ==
  { <<PricedSnapshot("bybit", "BTCUSDT", 10009, 10011, 10019, 10021),
      PricedSnapshot("okx", "BTCUSDT", 10019, 10021, Missing, Missing)>>,
    <<PricedSnapshot("bybit", "BTCUSDT", 9989, 9991, 10029, 10031),
      PricedSnapshot("okx", "BTCUSDT", 10039, 10041, Missing, Missing)>>,
    <<PricedSnapshot("bybit", "BTCUSDT", 10009, 10011, Missing, 10021)>> }

PnlSeeds ==
  [carry : BOOLEAN, xarb : BOOLEAN, closed : BOOLEAN, tri : BOOLEAN,
   old : BOOLEAN, marks : PnlMarks]

InitPnl ==
  \E seed \in PnlSeeds :
    LET notional(o) == deriveNotional(opportunities[o],
                                      Mills(DEFAULT_MIN_NOTIONAL),
                                      Mills(DEFAULT_MAX_NOTIONAL))
        open(o) == NewPosition(o, notional(o), TRUE)
        closedAt(o, ts, realized) ==
          [open(o) EXCEPT !.status = "closed", !.exit_by = "auto",
                          !.exit_ts = ts, !.realized_pnl_usd = Pnl(realized),
                          !.age = IF ts < 0 THEN 2 ELSE 0]
        book == (IF seed.carry THEN <<open(1)>> ELSE <<>>)
                  \o (IF seed.xarb THEN <<open(2)>> ELSE <<>>)
                  \o (IF seed.closed THEN <<closedAt(1, 0, 1210)>> ELSE <<>>)
                  \o (IF seed.tri THEN <<open(3)>> ELSE <<>>)
                  \o (IF seed.old THEN <<closedAt(1, 0 - 2000, 640)>> ELSE <<>>)
    IN /\ now = 0
       /\ opportunities = <<OppRow(CarryOpp, 0), OppRow(XarbOpp, 0),
                            OppRow(TriKind, 0)>>
       /\ positions = book
       /\ account = [DefaultAccount EXCEPT !.reserved_usd =
                       SumNotional({i \in 1..Len(book) :
                                      book[i].status = "open"})]
       /\ executions =
            {EntryExecutions(i) : i \in 1..Len(book)}
              \cup {ExitExecutions(i) :
                      i \in {j \in 1..Len(book) : book[j].exit_by = "auto"}}
       /\ decisions = <<>>
       /\ aiUsage = 0
       /\ pc = [p \in Procs |-> "idle"]
       /\ loc = [p \in Procs |-> LocInit]
       /\ snapshots = seed.marks
       /\ tick = NoTick
       /\ dailyPnl = <<>>
       /\ serial = TRUE
       /\ faults = MaxPnlFaults
       /\ runs = MaxPnlRuns

NextPnl == computeDailyPnl("pnl")

SpecPnl == InitPnl /\ [][NextPnl]_vars

\* paperFill.  A price is held in units of 0.00001 and a fill price in units
\* of 0.0001, the four decimals toFixed(4) keeps; fee_usd is in units of
\* 0.0001 USD.  price * (1 +- slippage_bps / 10000) is price * (10000 +-
\* slippage_bps) in units of 0.000000001, and toFixed(4) rounds that to the
\* nearest 0.0001.  qty (notional / fill_price, to eight decimals) takes
\* more digits than the checker's integers hold and is left out: nothing of
\* fill_price reads it.
ToFixed4(x9) == (x9 + 50000) \div 100000

paperFill(input) ==
  LET fill_price == IF input.side = "buy"
                    THEN input.price * (10000 + input.slippage_bps)
                    ELSE input.price * (10000 - input.slippage_bps)
  IN [fill_price |-> ToFixed4(fill_price),
      fee_usd |-> input.notional_usd * input.fee_bps,
      notional_usd |-> input.notional_usd * 10000]

\* The calls checked: prices from 0.00001 to 2.0, among them prices with a
\* fifth decimal, and the slippage the jobs pass (SLIPPAGE_BPS) next to
\* lower and higher ones.
FillPrices == {1, 9, 12341, 12346, 99995, 100000, 150000, 200000}
FillSlippages == {1, 2, 5}
FillNotionals == {100, 500}
PaperFillInputs ==
  [side : {"buy", "sell"}, price : FillPrices, notional_usd : FillNotionals,
   slippage_bps : FillSlippages, fee_bps : {FEE_BPS}]

paperFillCall(p) ==
  /\ pc[p] = "idle"
  /\ pc' = [pc EXCEPT ![p] = "filled"]
  /\ loc' = [loc EXCEPT ![p].result = paperFill(loc[p].arg)]
  /\ UNCHANGED <<account, opportunities, positions, executions, decisions,
                 aiUsage, faults, runs, now, snapshots, tick, serial,
                 dailyPnl>>

InitFill ==
  /\ account = NoAccount
  /\ opportunities = <<>>
  /\ positions = <<>>
  /\ executions = {}
  /\ decisions = <<>>
  /\ aiUsage = 0
  /\ pc = [p \in Procs |-> "idle"]
  /\ now = 0
  /\ snapshots = <<>>
  /\ tick = NoTick
  /\ dailyPnl = <<>>
  /\ serial = TRUE
  /\ faults = 0
  /\ runs = 0
  /\ \E input \in PaperFillInputs :
       loc = [p \in Procs |-> IF p = "fill"
                                 THEN [LocInit EXCEPT !.arg = input]
                                 ELSE LocInit]

NextFill == paperFillCall("fill")

SpecFill == InitFill /\ [][NextFill]_vars

\* scoreOpportunity applied to two opportunities.  The rows checked: every
\* strategy and an unknown type, edges from negative to high, break-even
\* hours absent, zero, under and over the 96 hours whose penalty equals the
\* penalty of an absent value.
ScoreTypes == {"spot_perp_carry", "tri_arb", "other"}
ScoreEdges == {0 - 5, 0, 12, 36}
ScoreBreakEvens == {NoBreakEven, 0, 10, 96, 200}
ScoreConfidences == {50, 70}
ScoreInputs ==
  [type : ScoreTypes, net_edge_bps : ScoreEdges,
   break_even_hours : ScoreBreakEvens, confidence : ScoreConfidences]

scoreOpportunityCall(p) ==
  /\ pc[p] = "idle"
  /\ pc' = [pc EXCEPT ![p] = "scored"]
  /\ loc' = [loc EXCEPT ![p].scored =
               << scoreOpportunity(loc[p].todo[1]),
                  scoreOpportunity(loc[p].todo[2]) >>]
  /\ UNCHANGED <<account, opportunities, positions, executions, decisions,
                 aiUsage, faults, runs, now, snapshots, tick, serial,
                 dailyPnl>>

InitScore ==
  /\ account = NoAccount
  /\ opportunities = <<>>
  /\ positions = <<>>
  /\ executions = {}
  /\ decisions = <<>>
  /\ aiUsage = 0
  /\ pc = [p \in Procs |-> "idle"]
  /\ now = 0
  /\ snapshots = <<>>
  /\ tick = NoTick
  /\ dailyPnl = <<>>
  /\ serial = TRUE
  /\ faults = 0
  /\ runs = 0
  /\ \E first \in ScoreInputs, second \in ScoreInputs :
       loc = [p \in Procs |-> IF p = "score"
                                 THEN [LocInit EXCEPT !.todo = <<first, second>>]
                                 ELSE LocInit]

NextScore == scoreOpportunityCall("score")

SpecScore == InitScore /\ [][NextScore]_vars

\* A tick whose re-ranker may answer late or never: the handler's own steps
\* and the timer are fair, the re-ranker's answer is not.
AwaitSeeds ==
  [kinds : [1..MaxAwaitOpps -> OppKinds],
   usage : {0, MAX_LLM_CALLS_PER_DAY - 1, MAX_LLM_CALLS_PER_DAY}]

InitAwait ==
  \E seed \in AwaitSeeds :
    /\ now = 0
    /\ opportunities = [i \in 1..MaxAwaitOpps |-> OppRow(seed.kinds[i], 0)]
    /\ account = DefaultAccount
    /\ positions = <<>>
    /\ executions = {}
    /\ decisions = <<>>
    /\ aiUsage = seed.usage
    /\ pc = [p \in Procs |-> "idle"]
    /\ loc = [p \in Procs |-> LocInit]
    /\ snapshots = <<>>
    /\ tick = NoTick
    /\ dailyPnl = <<>>
    /\ serial = TRUE
    /\ faults = 0
    /\ runs = MaxAwaitRuns

NextAwait ==
  \/ autoExecutePaper("tick1")
  \/ TickRerankSend("tick1")
  \/ TimeoutFires("tick1")
  \/ RerankerResponds("tick1")

SpecAwait ==
  /\ InitAwait
  /\ [][NextAwait]_vars
  /\ WF_vars(autoExecutePaper("tick1") \/ TickRerankSend("tick1"))
  /\ WF_vars(TimeoutFires("tick1"))

\* The pipeline end to end on what it ingests itself: ingestBinance has
\* stored a snapshot (exchange "binance"), detectCarry turns it into an
\* opportunity (detectCrossExchangeSpot may add a cross-exchange one),
\* autoExecutePaper opens positions and autoClosePaper monitors them.
InitPipeline ==
  /\ now = 0
  /\ account = NoAccount
  /\ opportunities = <<>>
  /\ positions = <<>>
  /\ executions = {}
  /\ decisions = <<>>
  /\ aiUsage = 0
  /\ pc = [p \in Procs |-> "idle"]
  /\ loc = [p \in Procs |-> LocInit]
  /\ \E k \in SnapshotKinds : snapshots = <<SnapshotRow("BTCUSDT", k)>>
  /\ tick = NoTick
  /\ dailyPnl = <<>>
  /\ serial = TRUE
  /\ faults = 0
  /\ runs = MaxPipelineRuns

NextPipeline ==
  \/ detectCarry
  \/ detectCrossExchangeSpot
  \/ autoExecutePaper("tick1")
  \/ autoClosePaper("close")

SpecPipeline == InitPipeline /\ [][NextPipeline]_vars

\* The cron tick against jobs that return or throw.
InitTick ==
  /\ InitDb
  /\ serial = TRUE
  /\ faults = 0
  /\ runs = 0

SpecTick == InitTick /\ [][handleTick]_vars

\* The runtime keeps running a request's continuation.
SpecTickLive == SpecTick /\ WF_vars(handleTick)

\* ------------------------------------------------------------------ claims
\* The entry executions of a position.
HasEntryExecutions(i) == EntryExecutions(i) \in executions

\* C1: after any sequence of ledger operations run one at a time (reserve
\* by autoExecutePaper or the manual execute handler, release by
\* autoClosePaper or the manual close handler, balance update by the paper
\* settings handler) the account satisfies 0 <= reserved_usd <= balance_usd.
C1_ReservedWithinBalance ==
  (AllIdle /\ account.exists) =>
    (0 <= account.reserved_usd /\ account.reserved_usd <= account.balance_usd)

\* C3: once every handler has returned, reserved_usd equals the sum of
\* meta.notional_usd over the open positions, also when an executions
\* insert or a ledger write failed in the middle of an open or a close.
C3_ReservedIsOpenNotional ==
  (AllIdle /\ account.exists) => account.reserved_usd = SumNotional(OpenIds)

\* C4: once every handler has returned there is no open position without
\* entry executions: a failed executions insert in autoExecutePaper or in
\* the manual execute handler does not leave the position behind.
C4_OpenPositionHasExecutions ==
  AllIdle => \A i \in OpenIds : HasEntryExecutions(i)

\* C10: autoExecutePaper never inserts an open position for a symbol that
\* already has MAX_OPEN_PER_SYMBOL open positions.
C10_SymbolCap ==
  [][\A p \in Ticks :
       (pc[p] = "t_pos" /\ Len(positions') = Len(positions) + 1
          /\ positions'[Len(positions')].status = "open")
       => Cardinality({i \in OpenIds :
             positions[i].symbol = positions'[Len(positions')].symbol})
            < MAX_OPEN_PER_SYMBOL]_vars

\* The steps that write reserved_usd, and what each adds to it.
LedgerWritePcs == {"t_reserve", "me_reserve", "c_ledger", "mc_write"}
LedgerDelta(p) ==
  IF pc[p] \in {"t_reserve", "me_reserve"} THEN loc[p].notional
  ELSE 0 - loc[p].notional

\* C2: when ledger operations interleave, no handler writes a reserved_usd
\* computed from a value another handler has overwritten since: every
\* ledger write moves the row's current reserved_usd by its own notional
\* (so the final value is the initial one plus what was reserved minus what
\* was released) and leaves 0 <= reserved_usd <= balance_usd.
C2_NoLostLedgerUpdate ==
  [][\A p \in Procs :
       (pc[p] \in LedgerWritePcs /\ pc'[p] # pc[p])
       => /\ account'.reserved_usd =
               Max2(0, ToFixed2(account.reserved_usd + LedgerDelta(p)))
          /\ 0 <= account'.reserved_usd
          /\ account'.reserved_usd <= account'.balance_usd]_vars

\* C5: a position goes from open to closed at most once and never back;
\* the exit fields of a closed position are not overwritten by a later
\* autoClosePaper or manual close.
C5_ClosedStaysClosed ==
  [][\A i \in PosIds :
       positions[i].status = "closed"
       => /\ positions'[i].status = "closed"
          /\ positions'[i].exit_by = positions[i].exit_by]_vars

\* A closer has run its update on a position the other closer had closed.
C5_Witness ==
  \/ /\ pc["close"] = "c_exec"
     /\ positions[loc["close"].pos].exit_by = "manual"
  \/ /\ pc["mclose"] = "mc_acct"
     /\ positions[loc["mclose"].pos].exit_by = "auto"

\* The gated return: zero counts, and no table written.
Gated(p) ==
  /\ pc'[p] = "idle"
  /\ loc'[p].result = ZeroResult
  /\ UNCHANGED dbVars

\* C9: when the open positions number MAX_OPEN_POSITIONS or more, or the
\* positions entered in the last hour MAX_NEW_PER_HOUR or more,
\* autoExecutePaper returns attempted = created = skipped = 0 and leaves
\* decisions, positions, executions, the ledger and the re-ranker usage
\* counter as they were.
C9_GateLeavesNoTrace ==
  [][\A p \in Ticks :
       /\ (pc[p] = "t_open" /\ pc'[p] # "t_open"
             /\ Cardinality(OpenIds) >= MAX_OPEN_POSITIONS) => Gated(p)
       /\ (pc[p] = "t_recent" /\ pc'[p] # "t_recent"
             /\ Cardinality(RecentIds) >= MAX_NEW_PER_HOUR) => Gated(p)]_vars

\* A tick has returned at the open-position gate.
C9_Witness ==
  /\ pc["tick1"] = "idle"
  /\ loc["tick1"].result = ZeroResult
  /\ Cardinality(OpenIds) >= MAX_OPEN_POSITIONS
  /\ decisions = <<>> /\ aiUsage = 0

C8_FailureIsolated ==
  tick.response = "structured" =>
    /\ \A j \in JobNames : tick.results[j] # "none"
    /\ \A j \in JobNames : tick.results[j] = "failed" <=> j \in tick.job_errors
    /\ tick.partial_failures <=> (\E j \in JobNames : tick.results[j] = "failed")

\* C6: running detectCarry, detectCrossExchangeSpot or detectTriangular
\* again within the five-minute window inserts no second opportunity for
\* the same (exchange key, symbol, type).
C6_OneOpportunityPerWindow ==
  \A i, j \in 1..Len(opportunities) :
    (/\ i < j
     /\ opportunities[i].exchange = opportunities[j].exchange
     /\ opportunities[i].symbol = opportunities[j].symbol
     /\ opportunities[i].type = opportunities[j].type)
    => opportunities[j].inserted_at - opportunities[i].inserted_at
         >= IDEMPOTENT_MINUTES

\* C11: no execution path (autoExecutePaper or the manual execute handler)
\* opens a position for an opportunity that already has an open one: with
\* the handlers run one at a time, no opportunity is referenced by two open
\* positions.
C11_OneOpenPerOpportunity ==
  serial => \A o \in 1..Len(opportunities) : Cardinality(OpenForOpp(o)) <= 1

\* The row an insert into positions has just appended.
Inserted == positions'[Len(positions')]

\* The last reason a tick has pushed.
LastReason(l) == l.reasons[Len(l.reasons)].reason

\* C12: with the handlers run one at a time, autoExecutePaper and the
\* manual execute handler never insert a position whose notional exceeds
\* balance_usd - reserved_usd of the account at that time, and a candidate
\* (or request) over it is rejected -- "insufficient_balance" in
\* autoExecutePaper, a 400 in the manual handler -- with positions,
\* executions and the account as they were.
C12_NotionalWithinAvailable ==
  [][serial =>
       /\ Len(positions') = Len(positions) + 1 =>
            /\ account.exists
            /\ Inserted.notional_usd
                 <= account.balance_usd - account.reserved_usd
       /\ \A p \in Ticks :
            (/\ pc[p] = "t_existing"
             /\ OpenForOpp(Cand(p).id) = {}
             /\ deriveNotional(opportunities[Cand(p).id], loc[p].minN,
                               loc[p].maxN)
                  > account.balance_usd - account.reserved_usd)
            => /\ pc'[p] = "t_loop"
               /\ LastReason(loc'[p]) = "insufficient_balance"
               /\ UNCHANGED <<positions, executions, account>>
       /\ (/\ pc["manual"] = "idle"
           /\ loc'["manual"].result.reason = "Nincs eleg paper toke.")
          => UNCHANGED <<positions, executions, account>>]_vars

\* A position is open within the balance, and a tick has skipped its
\* candidate for the notional.
C12_Witness ==
  /\ serial
  /\ OpenIds # {}
  /\ \E p \in Ticks : /\ pc[p] = "t_loop" /\ loc[p].reasons # <<>>
                      /\ LastReason(loc[p]) = "insufficient_balance"

\* C13: when the re-ranker call for a candidate times out, answers with an
\* HTTP error or fails at the network level, autoExecutePaper goes on with
\* the score computed before the call: the re-rank step never ends the job
\* with an error.
C13_RerankNeverFailsTheJob ==
  [][\A p \in Ticks :
       pc[p] = "t_llm" =>
         ~(pc'[p] = "idle" /\ loc'[p].result.status = "error")]_vars

\* The row of candidate id in a scored list.
RowOf(scored, id) == CHOOSE r \in {scored[k] : k \in 1..Len(scored)} : r.id = id

\* The candidates whose effective score the re-rank step has replaced.
Overridden(before, after) ==
  {k \in 1..Len(after) :
     after[k].effectiveScore # RowOf(before, after[k].id).effectiveScore}

LearnedScore(id) ==
  predictScore(trainWeights(TrainingRows), buildFeatureBundle(opportunities[id]))

\* C15: a variant A candidate's effective score is its rule score at every
\* point of a tick, before and after the re-rank; a variant B candidate's
\* effective score as scored, before the re-rank, is the learned score when
\* a model exists and the rule score otherwise.
C15_VariantScores ==
  \A p \in Ticks :
    \A k \in 1..Len(loc[p].scored) :
      LET row == loc[p].scored[k]
          rule == scoreOpportunity(opportunities[row.id])
      IN /\ row.variant = variantForOpportunity(row.id)
         /\ row.variant = "A" => row.effectiveScore = rule
         /\ (serial /\ pc[p] = "t_llm" /\ row.variant = "B") =>
              row.effectiveScore =
                IF LearnedScore(row.id) # NoAi THEN LearnedScore(row.id)[1]
                ELSE rule

\* A tick has scored under a trained model: a variant B candidate carries
\* its learned score, which differs from its rule score, next to a variant A
\* candidate whose learned score differs from its rule score too.
C15_Witness ==
  /\ pc["tick1"] = "t_usage"
  /\ trainWeights(TrainingRows) # NoWeights
  /\ \E k \in 1..Len(loc["tick1"].scored) :
       LET row == loc["tick1"].scored[k]
       IN row.variant = "A" /\ row.aiScore # NoAi /\ row.aiScore[1] # row.score
  /\ \E k \in 1..Len(loc["tick1"].scored) :
       LET row == loc["tick1"].scored[k]
       IN /\ row.variant = "B" /\ row.effectiveScore # row.score
          /\ row.effectiveScore = LearnedScore(row.id)[1]
  /\ \E k \in 1..Len(loc["tick1"].scored) :
       loc["tick1"].scored[k].effectiveScore = LlmScore

\* The venues have answered with every input the close rules of a position
\* of this type read: the four prices, and the funding rate of a carry.
InputsAvailable(type, answer) ==
  /\ answer.ok
  /\ Missing \notin {answer.a_bid, answer.a_ask, answer.b_bid, answer.b_ask}
  /\ type = "spot_perp_carry" => answer.funding # Missing

\* C16: autoClosePaper never closes a position in a cycle in which a live
\* input it needs is unavailable (a bid or ask, or the funding rate of a
\* carry position): while it is closing a position, the answer it read had
\* every input.
C16_NoCloseOnMissingInput ==
  pc["close"] \in {"c_update", "c_exec", "c_ledger"} =>
    InputsAvailable(positions[loc["close"].pos].type, loc["close"].answer)

\* C17: with the live quotes available, autoClosePaper closes an open carry
\* position in a cycle exactly when unrealized / notional has reached the
\* take-profit or the stop-loss ratio, or the funding is not positive, or
\* the net edge recomputed from the live basis and funding is negative;
\* otherwise it reports "hold" and leaves the position, the executions and
\* the account as they were.
C17_CarryCloseRule ==
  [][(/\ pc["close"] = "c_next"
      /\ loc["close"].todo # <<>>
      /\ positions[Head(loc["close"].todo)].type = "spot_perp_carry"
      /\ InputsAvailable("spot_perp_carry", loc'["close"].answer))
     => LET i == Head(loc["close"].todo)
            n == positions[i].notional_usd
            a == loc'["close"].answer
            pnl == CarryUnrealized(n, a)
            due == \/ 10000 * pnl >= TP_PCT_BPS * n
                   \/ 10000 * pnl <= 0 - SL_PCT_BPS * n
                   \/ a.funding <= 0
                   \/ CarryNetEdgeBps(a) < 0
        IN /\ due => pc'["close"] = "c_update" /\ loc'["close"].pos = i
           /\ ~due => /\ pc'["close"] = "c_next"
                      /\ loc'["close"].todo = Tail(loc["close"].todo)
                      /\ LastReason(loc'["close"]) = "hold"
           /\ UNCHANGED <<positions, executions, account>>]_vars

\* A carry position is being closed on its PnL ratio alone: the funding is
\* positive and the net edge is not negative.
C17_Witness ==
  /\ pc["close"] = "c_exec"
  /\ positions[loc["close"].pos].type = "spot_perp_carry"
  /\ positions[loc["close"].pos].status = "closed"
  /\ InputsAvailable("spot_perp_carry", loc["close"].answer)
  /\ loc["close"].answer.funding > 0
  /\ CarryNetEdgeBps(loc["close"].answer) >= 0
  /\ loc["close"].unrealized < 0

\* The other side of an execution leg.
Opposite(leg) ==
  CASE leg = "spot_buy" -> "spot_sell"
    [] leg = "spot_sell" -> "spot_buy"
    [] leg = "perp_sell" -> "perp_buy"
    [] leg = "perp_buy" -> "perp_sell"

\* The unrealized PnL of position i at the prices of an answer.
UnrealizedAt(i, answer) ==
  IF positions[i].type = "spot_perp_carry"
  THEN CarryUnrealized(positions[i].notional_usd, answer)
  ELSE XarbUnrealized(positions[i].notional_usd, answer)

\* The exit executions of position i are in the table, each leg the other
\* side of the entry leg.
HasExitExecutions(i) ==
  \E x \in executions :
    /\ x.position_id = i /\ x.kind = "exit"
    /\ \E e \in executions :
         /\ e.position_id = i /\ e.kind = "entry"
         /\ Len(x.legs) = 2 /\ Len(e.legs) = 2
         /\ \A k \in 1..2 : x.legs[k] = Opposite(e.legs[k])

\* C18: every close autoClosePaper performs sets the position to closed with
\* realized PnL = unrealized PnL less the two exit fees, appends the two
\* exit executions (the other side of each entry leg) and lowers
\* reserved_usd by the position's notional, not below 0; a position that
\* reserved 300 from 0 leaves reserved_usd at exactly 0 when closed.
C18_CloseAccounting ==
  /\ [](\A i \in PosIds :
          (positions[i].exit_by = "auto"
             /\ ~(pc["close"] = "c_exec" /\ loc["close"].pos = i))
          => HasExitExecutions(i))
  /\ [][LET l == loc["close"]
            i == l.pos
        IN /\ (pc["close"] = "c_update" /\ pc'["close"] # "c_update") =>
                /\ positions[i].status = "open"
                /\ positions'[i].status = "closed"
                /\ positions'[i].realized_pnl_usd =
                     Pnl(UnrealizedAt(i, l.answer)
                           - 2 * ((positions[i].notional_usd * FEE_BPS)
                                    \div 10000))
           /\ (pc["close"] = "c_exec" /\ pc'["close"] # "c_exec") =>
                executions' # executions /\ HasExitExecutions(i)'
           /\ (pc["close"] = "c_ledger" /\ pc'["close"] # "c_ledger") =>
                account'.reserved_usd =
                  Max2(0, account.reserved_usd - positions[i].notional_usd)]_vars

\* The position that reserved 300 has been closed by autoClosePaper: the
\* job's running reserved amount and reserved_usd are exactly 0, the
\* position is closed with a realized PnL and its exit executions exist.
C18_Witness ==
  /\ pc["close"] = "c_next"
  /\ loc["close"].created = 1
  /\ loc["close"].reserved = 0
  /\ account.reserved_usd = 0
  /\ positions[1].notional_usd = Mills(300)
  /\ positions[1].status = "closed" /\ positions[1].exit_by = "auto"
  /\ positions[1].realized_pnl_usd # NoPnl
  /\ HasExitExecutions(1)

\* The positions autoExecutePaper has created for triangular opportunities.
TriAutoIds == {i \in PosIds : positions[i].type = "tri_arb" /\ positions[i].auto}

\* C19: every position autoExecutePaper creates for a tri_arb opportunity is
\* inserted already closed with a realized PnL, is open in no state, and
\* the tick's steps for it leave reserved_usd as it was.
C19_TriangleClosedAtOnce ==
  /\ [](\A i \in TriAutoIds : /\ positions[i].status = "closed"
                              /\ positions[i].realized_pnl_usd # NoPnl)
  /\ [][\A p \in Ticks :
          (/\ pc[p] \in {"t_quote", "t_pos", "t_exec", "t_chosen"}
           /\ opportunities[Cand(p).id].type = "tri_arb"
           /\ pc'[p] # pc[p])
          => /\ account' = account
             /\ pc[p] = "t_pos" /\ Len(positions') > Len(positions)
                  => /\ Inserted.status = "closed"
                     /\ Inserted.realized_pnl_usd # NoPnl
                     /\ Inserted.realized_pnl_usd[1] > 0]_vars

\* A tick has executed a triangle: the position is closed with its realized
\* PnL, its executions are written, the decision points at it and nothing is
\* reserved.
C19_Witness ==
  \E i \in TriAutoIds :
    /\ positions[i].status = "closed"
    /\ positions[i].realized_pnl_usd # NoPnl
    /\ HasEntryExecutions(i)
    /\ \E d \in 1..Len(decisions) :
         decisions[d].chosen /\ decisions[d].position_id = i
    /\ account.exists /\ account.reserved_usd = 0
    /\ OpenIds = {}

\* C20: for a symbol with a valid snapshot detectCarry decides in this
\* order: funding_daily_bps <= 0 is skipped "non-positive funding";
\* otherwise break_even_hours <= 48 with net edge >= min_net_edge_bps is an
\* inserted opportunity unless a recent one exists; otherwise
\* break_even_hours <= 72 is watchlist, with nothing inserted; otherwise
\* skipped "below threshold".
C20_CarryDecisionOrder ==
  [][(loc'["detect"].result.status # "none" /\ ValidInWindow # {}) =>
       LET snapshot == snapshots[LatestValid]
           funding == snapshot.funding_daily_bps
           basis == snapshot.entry_basis_bps
           net == basis + funding - TOTAL_COSTS_BPS
           hours100 == (2400 * (TOTAL_COSTS_BPS - basis)) \div funding
           got == loc'["detect"].result
           recent == RecentOpportunity(snapshot.exchange, snapshot.symbol,
                                       "spot_perp_carry")
       IN IF funding <= 0
          THEN /\ got = Evaluated("skipped", "non-positive funding")
               /\ UNCHANGED opportunities
          ELSE IF hours100 <= 4800 /\ net >= CARRY_MIN_NET_EDGE_BPS
          THEN IF recent
               THEN got.status = "skipped" /\ UNCHANGED opportunities
               ELSE /\ got.status = "inserted"
                    /\ Len(opportunities') = Len(opportunities) + 1
          ELSE IF hours100 <= 7200
          THEN got.status = "watchlist" /\ UNCHANGED opportunities
          ELSE /\ got = Evaluated("skipped", "below threshold")
               /\ UNCHANGED opportunities]_vars

\* A ticker request that failed, and a book that arrived with a non-positive
\* or crossed quote.
RequestFailed(t) == t.failure # ""
QuoteInvalid(t) ==
  /\ ~RequestFailed(t) /\ t.code = "0" /\ t.rows > 0
  /\ t.askPx # Missing /\ t.bidPx # Missing
  /\ (t.askPx <= 0 \/ t.bidPx <= 0 \/ t.askPx < t.bidPx)

\* C21: in detectTriangular, when the HTTP call of one of a path's legs
\* fails or a leg's quote is non-positive or crossed, the path is reported
\* as skipped with the underlying error as reason, no opportunity is
\* inserted for it, and the run goes on to the next path, so that the run
\* ends with one evaluated row for every configured path.
C21_InvalidLegSkipsPath ==
  /\ [](pc["tri"] = "tri_return" =>
          /\ Len(loc["tri"].evaluated) = Len(PATHS)
          /\ \A i \in 1..Len(PATHS) : loc["tri"].evaluated[i].path = PATHS[i])
  /\ [][pc["tri"] = "tri_fetch" =>
        /\ pc'["tri"] \in {"tri_fetch", "tri_existing", "tri_return"}
        /\ (\E i \in 1..3 : \/ RequestFailed(loc'["tri"].tickers[i])
                             \/ QuoteInvalid(loc'["tri"].tickers[i]))
           =>
           LET l == loc["tri"]
               after == loc'["tri"]
               tickers == after.tickers
               failed == {i \in 1..3 : RequestFailed(tickers[i])}
               row == after.evaluated[Len(after.evaluated)]
           IN /\ Len(after.evaluated) = Len(l.evaluated) + 1
              /\ row.path = PATHS[l.idx]
              /\ row.decision = "skipped"
              /\ IF failed # {}
                 THEN row.reason \in {tickers[i].failure : i \in failed}
                 ELSE row.reason = "invalid prices"
              /\ after.skipped = l.skipped + 1
              /\ after.created = l.created
              /\ opportunities' = opportunities
              /\ IF l.idx < Len(PATHS)
                 THEN pc'["tri"] = "tri_fetch" /\ after.idx = l.idx + 1
                 ELSE pc'["tri"] = "tri_return"]_vars

\* A run about to return that skipped one path for a crossed or non-positive
\* quote and one for a failed request, and inserted a later path.
C21_Witness ==
  /\ pc["tri"] = "tri_return"
  /\ \E i, j, k \in 1..Len(loc["tri"].evaluated) :
       /\ i < k /\ j < k
       /\ loc["tri"].evaluated[i].reason = "invalid prices"
       /\ loc["tri"].evaluated[j].reason = "HTTP 500"
       /\ loc["tri"].evaluated[k].decision = "inserted"
       /\ \E o \in 1..Len(opportunities) :
            opportunities[o].symbol = PATHS[k] /\ opportunities[o].inserted_at = now

\* Symbols a detector run has yet to evaluate after the one at hand.
SymbolsLeft(p) ==
  IF pc[p] \in {"carry_symbol", "carry_existing", "carry_insert"}
  THEN Len(loc[p].todo) - 1
  ELSE IF pc[p] \in {"xarb_read", "xarb_existing", "xarb_insert"}
       THEN Len(Mappings) - loc[p].idx
       ELSE 0

\* C22: in detectCarry and detectCrossExchangeSpot a failure while one
\* symbol is evaluated, a failed repository read or insert included, does
\* not keep the remaining symbols from being evaluated: a run with symbols
\* left never ends on the symbol at hand.
C22_FailureKeepsRemainingSymbols ==
  [][\A p \in {"cdetect", "xdetect"} :
       SymbolsLeft(p) > 0 => pc'[p] # "idle"]_vars

\* C23: computeDailyPnl run again on the same day over unchanged positions,
\* executions and snapshots leaves one daily_strategy_pnl row per (day,
\* strategy_key, exchange_key), and its pnl_usd is the value one run
\* computes: the second run does not add to the first.
C23_DailyPnlIdempotent ==
  /\ \A i, j \in 1..Len(dailyPnl) :
       SameDailyKey(dailyPnl[i], dailyPnl[j]) => i = j
  /\ \A i \in 1..Len(dailyPnl) :
       \E k \in 1..Len(DailyRows) :
         /\ SameDailyKey(dailyPnl[i], DailyRows[k])
         /\ dailyPnl[i].pnl_usd = DailyRows[k].pnl_usd
  /\ (runs = 0 /\ pc["pnl"] = "idle" /\ faults = MaxPnlFaults
        /\ loc["pnl"].result.status = "ok")
       => Len(dailyPnl) = Len(DailyRows)

\* Two runs have returned; the table holds three rows, a gain and a loss
\* among them.
C23_Witness ==
  /\ runs = 0 /\ pc["pnl"] = "idle" /\ faults = MaxPnlFaults
  /\ loc["pnl"].result.status = "ok"
  /\ Len(loc["pnl"].result.rows) = 3
  /\ Len(dailyPnl) = 3
  /\ \E i, j \in 1..3 : dailyPnl[i].pnl_usd > 0 /\ dailyPnl[j].pnl_usd < 0

\* A run of autoExecutePaper inside a turn of its candidate loop.
InLoopTurn(p) ==
  pc[p] \in {"t_existing", "t_quote", "t_pos", "t_exec",
             "t_reserve", "t_chosen"}

\* C24: one run of autoExecutePaper attempts at most MAX_EXECUTE_PER_TICK
\* candidates and so creates at most that many positions, and no scored
\* candidate left unattempted has a lower final effective score than an
\* attempted one.
C24_LowestScoresAttempted ==
  /\ [](\A p \in Ticks :
          /\ loc[p].attempted <= MAX_EXECUTE_PER_TICK
          /\ loc[p].created <= loc[p].attempted
          /\ loc[p].result.attempted <= MAX_EXECUTE_PER_TICK
          /\ loc[p].result.created <= loc[p].result.attempted
          /\ InLoopTurn(p) =>
               /\ loc[p].idx <= MAX_EXECUTE_PER_TICK
               /\ loc[p].attempted = loc[p].idx
               /\ \A j \in 1..Len(loc[p].scored) :
                    j > MAX_EXECUTE_PER_TICK =>
                      Cand(p).effectiveScore <= loc[p].scored[j].effectiveScore)
  /\ [][Len(positions') # Len(positions) =>
          /\ Len(positions') = Len(positions) + 1
          /\ \E p \in Ticks : /\ pc[p] = "t_pos"
                              /\ loc[p].created < MAX_EXECUTE_PER_TICK]_vars

\* A position has just been created for the candidate the re-ranker moved
\* to the front, ahead of a candidate with a lower rule score.
C24_Witness ==
  /\ pc["tick1"] = "t_exec"
  /\ Len(loc["tick1"].scored) >= 3
  /\ Cand("tick1").effectiveScore = LlmScore
  /\ \E j \in 2..Len(loc["tick1"].scored) :
       /\ loc["tick1"].scored[j].score < Cand("tick1").score
       /\ loc["tick1"].scored[j].effectiveScore > LlmScore
  /\ positions[Len(positions)].opportunity_id = Cand("tick1").id

\* C25: for every positive price and positive slippage, the fill_price that
\* paperFill returns, rounded to four decimals as it is, is not below the
\* price for a buy and not above the price for a sell.
C25_FillDirectionAfterRounding ==
  pc["fill"] = "filled" =>
    LET input == loc["fill"].arg
        fill == loc["fill"].result
    IN /\ input.side = "buy" => fill.fill_price * 10 >= input.price
       /\ input.side = "sell" => fill.fill_price * 10 <= input.price

\* C26: of two opportunities equal in everything but the second's lower
\* net_edge_bps or higher break_even_hours, scoreOpportunity gives the
\* second a rule score that is not lower than the first's.
NotBetter(first, second) ==
  /\ second.type = first.type
  /\ second.confidence = first.confidence
  /\ second.net_edge_bps <= first.net_edge_bps
  /\ IF first.break_even_hours = NoBreakEven
        \/ second.break_even_hours = NoBreakEven
     THEN second.break_even_hours = first.break_even_hours
     ELSE second.break_even_hours >= first.break_even_hours
  /\ second # first

C26_ScoreMonotonic ==
  pc["score"] = "scored" =>
    (NotBetter(loc["score"].todo[1], loc["score"].todo[2])
       => loc["score"].scored[2] >= loc["score"].scored[1])

C26_Witness ==
  /\ pc["score"] = "scored"
  /\ NotBetter(loc["score"].todo[1], loc["score"].todo[2])
  /\ loc["score"].todo[2].net_edge_bps < loc["score"].todo[1].net_edge_bps
  /\ loc["score"].todo[2].break_even_hours > loc["score"].todo[1].break_even_hours
  /\ loc["score"].todo[1].break_even_hours # NoBreakEven
  /\ loc["score"].scored[2] > loc["score"].scored[1]

Executors == Ticks \cup {"manual"}

C28_ReserveAfterInserts ==
  [][\A p \in Executors :
       (pc[p] # "idle" \/ pc'[p] # "idle") =>
         /\ account'.reserved_usd # account.reserved_usd =>
              /\ pc[p] \in {"t_reserve", "me_reserve"}
              /\ loc[p].pos \in PosIds
              /\ positions[loc[p].pos].status = "open"
              /\ positions[loc[p].pos].notional_usd = loc[p].notional
              /\ EntryExecutions(loc[p].pos) \in executions
              /\ account'.reserved_usd =
                   ReserveValue(account.reserved_usd, loc[p].notional)
         /\ (pc[p] # "idle" /\ pc'[p] # "idle"
               /\ loc'[p].skipped > loc[p].skipped)
              => account' = account
         /\ (pc[p] # "idle" /\ pc'[p] = "idle"
               /\ loc'[p].result.status = "error")
              => account' = account]_vars

\* One candidate was executed and its notional reserved; a later attempt
\* inserted its position and failed on the executions, and what is reserved
\* is still the first position's notional.
C28_Witness ==
  \E i \in OpenIds : \E j \in OpenIds :
    /\ EntryExecutions(i) \in executions
    /\ EntryExecutions(j) \notin executions
    /\ account.reserved_usd = positions[i].notional_usd
    /\ \A p \in Procs : pc[p] = "idle"

\* C29: when autoClosePaper and a manual close race on one open position,
\* one of them alone applies the close effects: a closer inserts the exit
\* executions of a position, or releases its notional from reserved_usd,
\* only when its own update closed the position.
C29_CloseEffectsOnce ==
  [][/\ (pc["close"] = "c_exec" /\ pc'["close"] = "c_ledger")
          => positions[loc["close"].pos].exit_by = "auto"
     /\ (pc["close"] = "c_ledger" /\ pc'["close"] # "c_ledger")
          => positions[loc["close"].pos].exit_by = "auto"
     /\ (pc["mclose"] = "mc_write" /\ pc'["mclose"] # "mc_write")
          => positions[loc["mclose"].pos].exit_by = "manual"]_vars

\* C30: however the detector runs interleave (a tick's detectCarry against
\* a manually triggered one), the opportunities created within one
\* five-minute window for one (exchange key, symbol, type) number at most
\* one.
SameWindow(i, j) ==
  /\ opportunities[i].exchange = opportunities[j].exchange
  /\ opportunities[i].symbol = opportunities[j].symbol
  /\ opportunities[i].type = opportunities[j].type
  /\ opportunities[j].inserted_at >= opportunities[i].inserted_at
  /\ opportunities[j].inserted_at
       < opportunities[i].inserted_at + IDEMPOTENT_MINUTES

C30_OnePerWindowUnderRace ==
  \A i \in 1..Len(opportunities) :
    Cardinality({j \in 1..Len(opportunities) : SameWindow(i, j)}) <= 1

\* C31: a tick raises the day's stored re-ranker usage by exactly the
\* number of requests it sent to the re-ranker: by nothing when it sent
\* none (no API key), and by its own count on top of whatever the row holds
\* when ticks overlap.
C31_UsageCountsSentCalls ==
  [][\A p \in Ticks :
       (pc[p] = "t_usage" /\ pc'[p] # "t_usage")
          => aiUsage' = aiUsage + loc[p].sent]_vars

\* C32: if the re-ranker never responds, scoreWithOpenAI returns once its
\* timeout has fired, so a tick that waits for the re-ranker eventually
\* completes.
C32_TimeoutEndsTheWait ==
  pc["tick1"] = "t_await" ~> pc["tick1"] = "idle"

\* C33: an open carry position whose opportunity came from a venue the
\* pipeline ingests and detects on is re-quoted by autoClosePaper whenever
\* the venue is reachable: with every live input at hand, autoClosePaper
\* does not pass the position over with reason "live_price_error" (so a
\* position whose close trigger holds gets closed).
IngestedVenues == {"binance"}

C33_IngestedVenueIsRequoted ==
  [][(/\ pc["close"] = "c_next"
      /\ pc'["close"] = "c_next"
      /\ loc'["close"].skipped > loc["close"].skipped
      /\ positions[loc'["close"].pos].type = "spot_perp_carry"
      /\ opportunities[positions[loc'["close"].pos].opportunity_id].exchange
           \in IngestedVenues
      /\ InputsAvailable("spot_perp_carry", loc'["close"].answer))
     => LastReason(loc'["close"]) # "live_price_error"]_vars

\* C34: every candidate autoExecutePaper attempts has its decision row
\* (chosen = false) before a position is created for it; once the tick has
\* returned, the row has chosen = true and a position_id exactly when the
\* attempt created a position, so that every position created by
\* autoExecutePaper is referenced by a decision row.
C34_DecisionMatchesPosition ==
  /\ \A d \in 1..Len(decisions) :
       /\ decisions[d].chosen <=> decisions[d].position_id # 0
       /\ decisions[d].position_id # 0 =>
            /\ decisions[d].position_id \in PosIds
            /\ positions[decisions[d].position_id].opportunity_id
                 = decisions[d].opportunity_id
  /\ \A i \in PosIds :
       positions[i].auto =>
         /\ \E d \in 1..Len(decisions) :
              decisions[d].opportunity_id = positions[i].opportunity_id
         /\ (\A p \in Ticks : pc[p] = "idle") =>
              \E d \in 1..Len(decisions) :
                decisions[d].chosen /\ decisions[d].position_id = i

\* C35: the learned model is trained only on decisions whose position has a
\* realized outcome (a decision whose position is open, or has no
\* realized_pnl_usd, gives no training row), and under MIN_SAMPLES training
\* rows there is no model: every variant B candidate is scored by the rule.
C35_TrainsOnRealizedOnly ==
  [][\A p \in Ticks :
       (pc[p] = "t_score" /\ pc'[p] # "t_score") =>
         /\ \A d \in TrainingRows :
              /\ positions[decisions[d].position_id].status = "closed"
              /\ positions[decisions[d].position_id].realized_pnl_usd # NoPnl
         /\ Cardinality(TrainingRows) < MIN_SAMPLES =>
              \A k \in 1..Len(loc'[p].scored) :
                /\ loc'[p].scored[k].aiScore = NoAi
                /\ loc'[p].scored[k].effectiveScore = loc'[p].scored[k].score]_vars

\* C36: over any sequence of ticks and closes, autoExecutePaper opens at most
\* one position per opportunity: an opportunity that has produced a position
\* is never executed again, even after that position has been closed.
C36_OnePositionPerOpportunity ==
  \A i, j \in DOMAIN positions :
    (/\ positions[i].auto
     /\ positions[j].auto
     /\ positions[i].opportunity_id = positions[j].opportunity_id) => i = j

\* C37: in every state reachable by ticks and manual paper executes, the
\* account's number of open positions never exceeds MAX_OPEN_POSITIONS.
C37_OpenPositionsCapped ==
  Cardinality({i \in DOMAIN positions : positions[i].status = "open"})
    <= MAX_OPEN_POSITIONS

====
